---------------------------- MODULE Spec2Model ----------------------------
(***************************************************************************)
(* Model of the hierarchical weighted-evaluation table of the RFP tool     *)
(* (src/frontend/app/routes/$.tsx, component BuyerProject): the criteria   *)
(* tree with its weight cells, the overall-score aggregation, the filter   *)
(* layer and the column order with its drag-and-drop reordering.           *)
(*                                                                         *)
(* JavaScript strings are TLA+ strings (Len, SubSeq and \o act on them).   *)
(* A JavaScript number that may be NaN is a record [isNaN, num]; a number  *)
(* that is known to be an integer is a TLA+ integer.  The overall score,   *)
(* which has one decimal place, is held in tenths (700 stands for 70.0).   *)
(***************************************************************************)
EXTENDS Integers, Sequences, FiniteSets, TLC

(***************************************************************************)
(* Bounds of the model.                                                    *)
(***************************************************************************)
\* how many outcomes of the random score generator Init draws from
NumSeeds == 2
\* how many clicks on the -5 / +5 buttons a run may hold
MaxClicks == 1

(***************************************************************************)
(* JavaScript strings and numbers.                                         *)
(***************************************************************************)
Ch(s, i) == SubSeq(s, i, i)

Digits == <<"0", "1", "2", "3", "4", "5", "6", "7", "8", "9">>

IsDigit(c) == \E d \in 1..10 : Digits[d] = c

DigitVal(c) == (CHOOSE d \in 1..10 : Digits[d] = c) - 1

\* the white space and line terminators parseInt, Number and trim skip:
\* space, tab (U+0009), line feed (U+000A), form feed (U+000C), carriage
\* return (U+000D), and in the second line vertical tab (U+000B), no-break
\* space (U+00A0), ogham space mark (U+1680) and byte order mark (U+FEFF).
\* The others (U+2000 to U+200A, U+2028, U+2029, U+202F, U+205F, U+3000)
\* are characters no string of this module holds.
IsSpace(c) ==
    \/ c = " " \/ c = "\t" \/ c = "\n" \/ c = "\f" \/ c = "\r"
    \/ c = "" \/ c = " " \/ c = " " \/ c = "﻿"

NaN == [isNaN |-> TRUE, num |-> 0]

Num(n) == [isNaN |-> FALSE, num |-> n]

\* x || 0 on a number: NaN and 0 are falsy
OrZero(x) == IF x.isNaN THEN 0 ELSE x.num

RECURSIVE DigitString(_)
DigitString(n) ==
    IF n < 10 THEN Digits[n + 1]
    ELSE DigitString(n \div 10) \o Digits[(n % 10) + 1]

\* String(n), and n + '' in a concatenation, for an integer n
String(n) == IF n < 0 THEN "-" \o DigitString(0 - n) ELSE DigitString(n)

\* the index of the first character of s at or after i that is not white
\* space
RECURSIVE SkipSpaces(_, _)
SkipSpaces(s, i) ==
    IF i <= Len(s) /\ IsSpace(Ch(s, i)) THEN SkipSpaces(s, i + 1) ELSE i

\* the index after the longest run of digits of s that starts at i
RECURSIVE DigitsEnd(_, _)
DigitsEnd(s, i) ==
    IF i <= Len(s) /\ IsDigit(Ch(s, i)) THEN DigitsEnd(s, i + 1) ELSE i

\* the value of the digits s[i..j-1], acc being the value read so far
RECURSIVE DigitsValue(_, _, _, _)
DigitsValue(s, i, j, acc) ==
    IF i >= j THEN acc
    ELSE DigitsValue(s, i + 1, j, acc * 10 + DigitVal(Ch(s, i)))

\* parseInt(s): leading spaces, an optional sign, then the longest digit
\* prefix; NaN when there is no digit.  What follows the digits is ignored.
parseInt(s) ==
    LET b == SkipSpaces(s, 1)
        signed == b <= Len(s) /\ Ch(s, b) \in {"-", "+"}
        d == IF signed THEN b + 1 ELSE b
        e == DigitsEnd(s, d)
        v == DigitsValue(s, d, e, 0)
    IN  IF e = d THEN NaN
        ELSE IF signed /\ Ch(s, b) = "-" THEN Num(0 - v) ELSE Num(v)

\* the index of the last character of s at or before j that is not white
\* space, 0 when there is none
RECURSIVE SkipSpacesBack(_, _)
SkipSpacesBack(s, j) ==
    IF j >= 1 /\ IsSpace(Ch(s, j)) THEN SkipSpacesBack(s, j - 1) ELSE j

\* Number(s) for strings over digits, signs, spaces and other characters:
\* the trimmed string must be empty (0) or an optionally signed run of
\* digits, anything else is NaN.
Number(s) ==
    LET b == SkipSpaces(s, 1)
        t == SkipSpacesBack(s, Len(s))
        signed == b <= t /\ Ch(s, b) \in {"-", "+"}
        d == IF signed THEN b + 1 ELSE b
        e == DigitsEnd(s, d)
        v == DigitsValue(s, d, e, 0)
    IN  IF b > t THEN Num(0)
        ELSE IF e = d \/ e # t + 1 THEN NaN
        ELSE IF signed /\ Ch(s, b) = "-" THEN Num(0 - v) ELSE Num(v)

\* the index of the first occurrence of the character c in s at or after i,
\* 0 when there is none
RECURSIVE IndexOfChar(_, _, _)
IndexOfChar(s, c, i) ==
    IF i > Len(s) THEN 0
    ELSE IF Ch(s, i) = c THEN i
    ELSE IndexOfChar(s, c, i + 1)

\* s.replace('%', ''): the first '%' of s removed
replacePercent(s) ==
    LET p == IndexOfChar(s, "%", 1)
    IN  IF p = 0 THEN s ELSE SubSeq(s, 1, p - 1) \o SubSeq(s, p + 1, Len(s))

Max(a, b) == IF a >= b THEN a ELSE b

Min(a, b) == IF a <= b THEN a ELSE b


(***************************************************************************)
(* State.                                                                  *)
(***************************************************************************)
VARIABLES
    data,         \* the tree: React state `data` of BuyerProject
    expanded,     \* React state `expanded`: the positions, in the rows of the
                  \* table, of the expanded top-level rows
    inputValue,   \* node id -> the text of the node's weight input
    focus,        \* the id of the node whose weight input has focus, or NoFocus
    clicks,       \* the number of -5 / +5 clicks made so far
    contextMenu,  \* React state `contextMenu`: the row index and vendor index
                  \* of the vendor cell right-clicked last, or null (the
                  \* pointer coordinates x and y are left out)
    showBidDetails, \* React state `showBidDetails`: the Bid Details dialog is open
    columnOrder,  \* React state `columnOrder`: the column ids in display order
    renderedOrder, \* the `columnOrder` of the last render: what the header
                  \* cells show and what moveColumn and hover close over
    dragItem,     \* the drag-and-drop item {id, index} being dragged, or NoItem
    pointer,      \* the header the pointer went down on and the one it is over
    filters,      \* the filter predicates of useDataTableFilters
    callArgs,     \* the arguments of a call of calculateOverallScore
    callResult,   \* what that call returned, or NoResult
    messages,     \* useChat: the messages of the conversation
    input,        \* useChat: the text of the chat input
    status,       \* useChat: 'ready', 'submitted', 'streaming' or 'error'
    error,        \* useChat: the error of the failed request, or undefined
    requests      \* the number of assistant requests in flight

treeVars == <<data, expanded, inputValue, focus, clicks, contextMenu,
              showBidDetails>>

columnVars == <<columnOrder, renderedOrder, dragItem, pointer>>

chatVars == <<messages, input, status, error, requests>>

callVars == <<callArgs, callResult>>

vars == <<data, expanded, inputValue, focus, clicks, contextMenu, showBidDetails,
          columnOrder, renderedOrder, dragItem, pointer, filters, callArgs,
          callResult, messages, input, status, error, requests>>

\* what reading an array outside its bounds, or a value never set, gives
undefined == "<undefined>"

NoFocus == "none"

\* contextMenu when it is null
NoMenu == [rowIdx |-> -1, colIdx |-> -1]

NoItem == [id |-> "none", index |-> -1]

NoPointer == [down |-> -1, over |-> -1]

NoArgs == [fn |-> "none"]

NoResult == [returned |-> FALSE, value |-> NaN]

(***************************************************************************)
(* The criteria tree: rubric, vendors and random score fill.               *)
(***************************************************************************)
vendorColumnIds == <<"LangeTech", "Best Pacific", "KMNM", "Bhilosa", "Tianhai Lace">>

pinnedColumnIds == <<"title", "weight">>

allColumnIds == pinnedColumnIds \o vendorColumnIds

Unscored == <<"-", "-", "-", "-", "-">>

\* initialTableData before fillVendorScores: the six sections of the rubric,
\* each with its ten sub-criteria
rubric ==
    <<[id |-> "5.1", title |-> "Experience and Capabilities",
       weight |-> "20%", scores |-> Unscored,
       sub |-> <<
           [id |-> "5.1.1",
            text |-> "5.1.1. Provider's demonstrated ability to deliver SCaaS in comparable settings will be assessed.",
            weight |-> "", scores |-> Unscored],
           [id |-> "5.1.2",
            text |-> "5.1.2. Specific experience within the EU or Scandinavian regions will be favorably considered.",
            weight |-> "", scores |-> Unscored],
           [id |-> "5.1.3",
            text |-> "5.1.3. Telecommunications industry experience will be evaluated as a significant advantage.",
            weight |-> "", scores |-> Unscored],
           [id |-> "5.1.4",
            text |-> "5.1.4. Provider's track record of successful implementations of similar scale will be reviewed.",
            weight |-> "", scores |-> Unscored],
           [id |-> "5.1.5",
            text |-> "5.1.5. Strength and relevance of client references will be carefully assessed.",
            weight |-> "", scores |-> Unscored],
           [id |-> "5.1.6",
            text |-> "5.1.6. Provider's financial stability and organizational capacity will be evaluated.",
            weight |-> "", scores |-> Unscored],
           [id |-> "5.1.7",
            text |-> "5.1.7. Geographic coverage and operational capabilities across Europe will be considered.",
            weight |-> "", scores |-> Unscored],
           [id |-> "5.1.8",
            text |-> "5.1.8. Provider's experience with mission-critical supply chains will be highly valued.",
            weight |-> "", scores |-> Unscored],
           [id |-> "5.1.9",
            text |-> "5.1.9. Technology capabilities and digital transformation experience will be assessed.",
            weight |-> "", scores |-> Unscored],
           [id |-> "5.1.10",
            text |-> "5.1.10. Provider's demonstrated ability to drive measurable improvements will be evaluated.",
            weight |-> "", scores |-> Unscored] >>],
      [id |-> "5.2", title |-> "Service Approach and Methodology",
       weight |-> "20%", scores |-> Unscored,
       sub |-> <<
           [id |-> "5.2.1",
            text |-> "5.2.1. Completeness and clarity of the proposed service delivery approach will be evaluated.",
            weight |-> "", scores |-> Unscored],
           [id |-> "5.2.2",
            text |-> "5.2.2. Alignment with NeoTelc's operational requirements will be carefully assessed.",
            weight |-> "", scores |-> Unscored],
           [id |-> "5.2.3",
            text |-> "5.2.3. Provider's approach to service integration and end-to-end management will be considered.",
            weight |-> "", scores |-> Unscored],
           [id |-> "5.2.4",
            text |-> "5.2.4. Scalability and flexibility of the proposed solution will be evaluated.",
            weight |-> "", scores |-> Unscored],
           [id |-> "5.2.5",
            text |-> "5.2.5. Provider's methodology for continuous improvement will be assessed.",
            weight |-> "", scores |-> Unscored],
           [id |-> "5.2.6",
            text |-> "5.2.6. Innovation capability and approach to driving operational excellence will be considered.",
            weight |-> "", scores |-> Unscored],
           [id |-> "5.2.7",
            text |-> "5.2.7. Provider's risk management approach will be evaluated for comprehensiveness.",
            weight |-> "", scores |-> Unscored],
           [id |-> "5.2.8",
            text |-> "5.2.8. Quality of the implementation and transition methodology will be assessed.",
            weight |-> "", scores |-> Unscored],
           [id |-> "5.2.9",
            text |-> "5.2.9. Provider's approach to performance measurement and reporting will be considered.",
            weight |-> "", scores |-> Unscored],
           [id |-> "5.2.10",
            text |-> "5.2.10. Feasibility and pragmatism of the proposed approach will be carefully evaluated.",
            weight |-> "", scores |-> Unscored] >>],
      [id |-> "5.3", title |-> "Compliance and Regulatory Alignment",
       weight |-> "15%", scores |-> Unscored,
       sub |-> <<
           [id |-> "5.3.1",
            text |-> "5.3.1. Compliance with NeoTelc's corporate standards will be rigorously reviewed.",
            weight |-> "", scores |-> Unscored],
           [id |-> "5.3.2",
            text |-> "5.3.2. Adherence to industry regulations will be carefully assessed.",
            weight |-> "", scores |-> Unscored],
           [id |-> "5.3.3",
            text |-> "5.3.3. Provider's approach to environmental and ethical guidelines will be evaluated.",
            weight |-> "", scores |-> Unscored],
           [id |-> "5.3.4",
            text |-> "5.3.4. Quality and environmental management certifications will be considered.",
            weight |-> "", scores |-> Unscored],
           [id |-> "5.3.5",
            text |-> "5.3.5. Provider's data protection and information security practices will be assessed.",
            weight |-> "", scores |-> Unscored],
           [id |-> "5.3.6",
            text |-> "5.3.6. Compliance with labor laws and workplace regulations will be reviewed.",
            weight |-> "", scores |-> Unscored],
           [id |-> "5.3.7",
            text |-> "5.3.7. Provider's approach to regulatory monitoring and updates will be evaluated.",
            weight |-> "", scores |-> Unscored],
           [id |-> "5.3.8",
            text |-> "5.3.8. Ethical business practices and anti-corruption policies will be assessed.",
            weight |-> "", scores |-> Unscored],
           [id |-> "5.3.9",
            text |-> "5.3.9. Provider's compliance track record and any historical issues will be considered.",
            weight |-> "", scores |-> Unscored],
           [id |-> "5.3.10",
            text |-> "5.3.10. Quality of compliance documentation and evidence will be evaluated.",
            weight |-> "", scores |-> Unscored] >>],
      [id |-> "5.4", title |-> "Sustainability and DEI Commitments",
       weight |-> "15%", scores |-> Unscored,
       sub |-> <<
           [id |-> "5.4.1",
            text |-> "5.4.1. Strength and maturity of the provider's sustainability programs will be assessed.",
            weight |-> "", scores |-> Unscored],
           [id |-> "5.4.2",
            text |-> "5.4.2. Provider's carbon reduction initiatives and environmental impact strategies will be evaluated.",
            weight |-> "", scores |-> Unscored],
           [id |-> "5.4.3",
            text |-> "5.4.3. Diversity, Equity, and Inclusion commitments will be carefully reviewed.",
            weight |-> "", scores |-> Unscored],
           [id |-> "5.4.4",
            text |-> "5.4.4. Provider's ability to provide measurable impact metrics will be considered advantageous.",
            weight |-> "", scores |-> Unscored],
           [id |-> "5.4.5",
            text |-> "5.4.5. Verifiable sustainability and DEI initiatives will be highly valued.",
            weight |-> "", scores |-> Unscored],
           [id |-> "5.4.6",
            text |-> "5.4.6. Alignment with NeoTelc's own sustainability goals will be evaluated.",
            weight |-> "", scores |-> Unscored],
           [id |-> "5.4.7",
            text |-> "5.4.7. Provider's approach to sustainable supply chain practices will be assessed.",
            weight |-> "", scores |-> Unscored],
           [id |-> "5.4.8",
            text |-> "5.4.8. Community engagement and social responsibility initiatives will be considered.",
            weight |-> "", scores |-> Unscored],
           [id |-> "5.4.9",
            text |-> "5.4.9. Provider's circular economy and waste reduction programs will be evaluated.",
            weight |-> "", scores |-> Unscored],
           [id |-> "5.4.10",
            text |-> "5.4.10. Quality and comprehensiveness of sustainability reporting will be assessed.",
            weight |-> "", scores |-> Unscored] >>],
      [id |-> "5.5", title |-> "Cost Competitiveness and Value",
       weight |-> "15%", scores |-> Unscored,
       sub |-> <<
           [id |-> "5.5.1",
            text |-> "5.5.1. Overall value proposition rather than lowest price will be the primary consideration.",
            weight |-> "", scores |-> Unscored],
           [id |-> "5.5.2",
            text |-> "5.5.2. Cost transparency and detailed breakdown will be positively evaluated.",
            weight |-> "", scores |-> Unscored],
           [id |-> "5.5.3",
            text |-> "5.5.3. Provider's approach to cost optimization over time will be assessed.",
            weight |-> "", scores |-> Unscored],
           [id |-> "5.5.4",
            text |-> "5.5.4. Value-added services included in the pricing model will be considered.",
            weight |-> "", scores |-> Unscored],
           [id |-> "5.5.5",
            text |-> "5.5.5. Performance-based pricing components will be viewed favorably.",
            weight |-> "", scores |-> Unscored],
           [id |-> "5.5.6",
            text |-> "5.5.6. Provider's approach to shared savings and continuous improvement will be evaluated.",
            weight |-> "", scores |-> Unscored],
           [id |-> "5.5.7",
            text |-> "5.5.7. Total cost of ownership over the contract duration will be carefully assessed.",
            weight |-> "", scores |-> Unscored],
           [id |-> "5.5.8",
            text |-> "5.5.8. Financial benefits and return on investment projections will be considered.",
            weight |-> "", scores |-> Unscored],
           [id |-> "5.5.9",
            text |-> "5.5.9. Provider's financial models and assumptions will be critically evaluated.",
            weight |-> "", scores |-> Unscored],
           [id |-> "5.5.10",
            text |-> "5.5.10. Cost risk mitigation strategies will be assessed for effectiveness.",
            weight |-> "", scores |-> Unscored] >>],
      [id |-> "5.6", title |-> "Innovation and Technological Advancement",
       weight |-> "15%", scores |-> Unscored,
       sub |-> <<
           [id |-> "5.6.1",
            text |-> "5.6.1. Provider's technology capabilities and digital supply chain solutions will be evaluated.",
            weight |-> "", scores |-> Unscored],
           [id |-> "5.6.2",
            text |-> "5.6.2. Innovation roadmap and approach to continuous technological improvement will be assessed.",
            weight |-> "", scores |-> Unscored],
           [id |-> "5.6.3",
            text |-> "5.6.3. Provider's experience with advanced analytics and data-driven decision making will be considered.",
            weight |-> "", scores |-> Unscored],
           [id |-> "5.6.4",
            text |-> "5.6.4. Integration capabilities with NeoTelc's systems will be carefully evaluated.",
            weight |-> "", scores |-> Unscored],
           [id |-> "5.6.5",
            text |-> "5.6.5. Provider's approach to emerging technologies such as AI, IoT, and blockchain will be assessed.",
            weight |-> "", scores |-> Unscored],
           [id |-> "5.6.6",
            text |-> "5.6.6. Technology architecture and infrastructure robustness will be considered.",
            weight |-> "", scores |-> Unscored],
           [id |-> "5.6.7",
            text |-> "5.6.7. Provider's approach to cybersecurity and data protection will be evaluated.",
            weight |-> "", scores |-> Unscored],
           [id |-> "5.6.8",
            text |-> "5.6.8. Innovation culture and successful implementation of innovative solutions will be assessed.",
            weight |-> "", scores |-> Unscored],
           [id |-> "5.6.9",
            text |-> "5.6.9. Provider's investment in research and development will be considered.",
            weight |-> "", scores |-> Unscored],
           [id |-> "5.6.10",
            text |-> "5.6.10. Alignment of technological capabilities with NeoTelc's digital transformation goals will be evaluated.",
            weight |-> "", scores |-> Unscored] >>] >>

\* Math.floor(Math.random() * 41): each call gives one of 0..40, whatever the
\* calls before it gave
RandomInt41 == 0..40

\* getRandomPercent() when Math.floor(Math.random() * 41) gives draw
getRandomPercent(draw) == String(draw + 60) \o "%"

\* the number of '-' among the first v entries of scores
Dashes(scores, v) == Cardinality({k \in 1..v : scores[k] = "-"})

\* scores.map(val => val === '-' ? getRandomPercent() : val), draws being what
\* the calls of Math.floor(Math.random() * 41) give, in the order made
fillScores(scores, draws) ==
    [v \in 1..Len(scores) |->
        IF scores[v] = "-" THEN getRandomPercent(draws[Dashes(scores, v)])
        ELSE scores[v]]

\* the number of draws made for the first c sub-criteria of row
RECURSIVE SubDraws(_, _)
SubDraws(row, c) ==
    IF c = 0 THEN 0
    ELSE SubDraws(row, c - 1) + Dashes(row.sub[c].scores, Len(row.sub[c].scores))

\* fillVendorScores(row): the scores of the row are filled first, then those
\* of its sub-criteria in their order; only a '-' takes a draw
fillVendorScores(row, draws) ==
    [row EXCEPT
        !.scores = fillScores(row.scores, draws),
        !.sub = [c \in 1..Len(row.sub) |->
                    [row.sub[c] EXCEPT
                        !.scores =
                            fillScores(row.sub[c].scores,
                                       SubSeq(draws,
                                              Dashes(row.scores, Len(row.scores))
                                                 + SubDraws(row, c - 1) + 1,
                                              Len(draws)))]]]

\* the number of draws made before the row at position r is filled: those
\* for the scores and the sub-criteria of every row before it
RECURSIVE DrawsBefore(_)
DrawsBefore(r) ==
    IF r = 1 THEN 0
    ELSE DrawsBefore(r - 1)
            + Dashes(rubric[r - 1].scores, Len(rubric[r - 1].scores))
            + SubDraws(rubric[r - 1], Len(rubric[r - 1].sub))

\* [...].map(fillVendorScores): the rows are filled in their order
initialTableData(draws) ==
    [r \in 1..Len(rubric) |->
        fillVendorScores(rubric[r],
                         SubSeq(draws, DrawsBefore(r) + 1, Len(draws)))]

\* the outcomes of Math.random the model starts from, one sequence of draws
\* for each seed: seed 1 is the generator that returns 0 at every call, the
\* other seeds give draws that differ from call to call
SampleDraws(seed) ==
    [slot \in 1..DrawsBefore(Len(rubric) + 1) |->
        IF seed = 1 THEN 0
        ELSE (seed * 13 + slot * 7) % Cardinality(RandomInt41)]

getSubRows(row) ==
    [c \in 1..Len(row.sub) |->
        [id |-> row.sub[c].id, title |-> row.sub[c].text,
         weight |-> row.sub[c].weight, scores |-> row.sub[c].scores]]

(***************************************************************************)
(* The overall score and the footer row.                                   *)
(***************************************************************************)
RECURSIVE SumSeq(_)
SumSeq(xs) == IF xs = <<>> THEN 0 ELSE Head(xs) + SumSeq(Tail(xs))

\* 10 * s / w cut to an integer instead of rounded, for w > 0
TruncateTenths(s, w) == (10 * s) \div w

\* Math.round(10 * s / w) for integers s and w, w # 0: the nearest integer,
\* a half rounded towards plus infinity
RoundTenths(s, w) ==
    IF w > 0 THEN (20 * s + w) \div (2 * w)
    ELSE (0 - 20 * s - w) \div (0 - 2 * w)

\* calculateOverallScore without the guard on a zero total weight: 0 / 0 is
\* NaN and rounds to NaN
calculateOverallScoreUnguarded(sectionScores, weights) ==
    LET totalWeight == SumSeq(weights)
    IN  IF Len(sectionScores) > Len(weights) \/ totalWeight = 0 THEN NaN
        ELSE Num(RoundTenths(
                SumSeq([i \in 1..Len(sectionScores) |->
                           sectionScores[i] * weights[i]]),
                totalWeight))

\* an overall score that divides by 100, as if the weights were shares of a
\* total of 100 percent
calculateOverallScorePerHundred(sectionScores, weights) ==
    LET totalWeight == SumSeq(weights)
    IN  IF totalWeight = 0 THEN Num(0)
        ELSE IF Len(sectionScores) > Len(weights) THEN NaN
        ELSE Num(RoundTenths(
                SumSeq([i \in 1..Len(sectionScores) |->
                           sectionScores[i] * weights[i]]),
                100))

\* calculateOverallScore on arrays of integers; the result is in tenths.
\* A score without a weight multiplies by undefined, which makes the sum NaN.
calculateOverallScore(sectionScores, weights) ==
    LET totalWeight == SumSeq(weights)
    IN  IF totalWeight = 0 THEN Num(0)
        ELSE IF Len(sectionScores) > Len(weights) THEN NaN
        ELSE Num(RoundTenths(
                SumSeq([i \in 1..Len(sectionScores) |->
                           sectionScores[i] * weights[i]]),
                totalWeight))

\* a number held in tenths, as JavaScript prints it
FormatTenths(x) ==
    IF x.isNaN THEN "NaN"
    ELSE LET a == IF x.num < 0 THEN 0 - x.num ELSE x.num
             whole == String(a \div 10)
             text == IF a % 10 = 0 THEN whole
                     ELSE whole \o "." \o Digits[(a % 10) + 1]
         IN  IF x.num < 0 THEN "-" \o text ELSE text

sectionIds == <<"5.1", "5.2", "5.3", "5.4", "5.5", "5.6">>

\* arr.indexOf(x): the zero-based index of the first x in arr, -1 if none
indexOf(arr, x) ==
    IF \E k \in 1..Len(arr) : arr[k] = x
    THEN (CHOOSE k \in 1..Len(arr) :
              arr[k] = x /\ \A j \in 1..(k - 1) : arr[j] # x) - 1
    ELSE -1

\* data.find(row => row.id === sectionId): the position of the row, 0 if none
find(d, sectionId) ==
    IF \E r \in 1..Len(d) : d[r].id = sectionId
    THEN CHOOSE r \in 1..Len(d) :
             d[r].id = sectionId /\ \A j \in 1..(r - 1) : d[j].id # sectionId
    ELSE 0

\* section scores that take a score string without a number for a full score
sectionScoresFullWhenUnparsable(d, vendorIdx) ==
    [k \in 1..Len(sectionIds) |->
        LET r == find(d, sectionIds[k])
        IN  IF r = 0 THEN 0
            ELSE IF Number(replacePercent(d[r].scores[vendorIdx + 1])).isNaN
            THEN 100
            ELSE Number(replacePercent(d[r].scores[vendorIdx + 1])).num]

\* the footer's sectionScores for the vendor index vendorIdx (zero-based)
sectionScores(d, vendorIdx) ==
    [k \in 1..Len(sectionIds) |->
        LET r == find(d, sectionIds[k])
        IN  IF r = 0 THEN 0
            ELSE OrZero(Number(replacePercent(d[r].scores[vendorIdx + 1])))]

\* section weights that count every section of the tree alike
sectionWeightsAllEqual(d) ==
    [k \in 1..Len(sectionIds) |-> IF find(d, sectionIds[k]) = 0 THEN 0 ELSE 1]

\* section weights that add the weights of a section's children to its own
sectionWeightsWithChildren(d) ==
    [k \in 1..Len(sectionIds) |->
        LET r == find(d, sectionIds[k])
        IN  IF r = 0 THEN 0
            ELSE OrZero(Number(replacePercent(d[r].weight)))
                 + SumSeq([c \in 1..Len(d[r].sub) |->
                             OrZero(Number(replacePercent(d[r].sub[c].weight)))])]

\* the footer's sectionWeights
sectionWeights(d) ==
    [k \in 1..Len(sectionIds) |->
        LET r == find(d, sectionIds[k])
        IN  IF r = 0 THEN 0
            ELSE OrZero(Number(replacePercent(d[r].weight)))]

\* a footer that takes the vendor index from where the column is displayed
footerVendorIdxByPosition(colId) ==
    indexOf(renderedOrder, colId) - Len(pinnedColumnIds)

\* the vendor index the footer uses for the column colId
footerVendorIdx(colId) == indexOf(vendorColumnIds, colId)

\* the overall score the footer computes under the vendor column colId
overallScore(d, colId) ==
    calculateOverallScore(sectionScores(d, footerVendorIdx(colId)),
                          sectionWeights(d))

\* the text of the footer cell under the column colId
footerCell(d, colId) ==
    IF colId = "title" THEN "Overall Score"
    ELSE IF colId = "weight" THEN ""
    ELSE FormatTenths(overallScore(d, colId)) \o "%"

(***************************************************************************)
(* The filter layer: columnsConfig and filteredData.                       *)
(***************************************************************************)
\* the lower-case letter of each upper-case letter
lowerOf ==
    LET UpperCase == "ABCDEFGHIJKLMNOPQRSTUVWXYZ"
        LowerCase == "abcdefghijklmnopqrstuvwxyz"
    IN  [c \in {Ch(UpperCase, k) : k \in 1..Len(UpperCase)} |->
            Ch(LowerCase,
               CHOOSE k \in 1..Len(UpperCase) : Ch(UpperCase, k) = c)]

\* a string left as it is
keepCase(s) == s

\* s.toLowerCase() for a string of ASCII characters: every character is
\* mapped on its own (the string is split in halves down to single characters)
RECURSIVE toLowerCase(_)
toLowerCase(s) ==
    IF s = "" THEN ""
    ELSE IF Len(s) = 1
    THEN (IF s \in DOMAIN lowerOf THEN lowerOf[s] ELSE s)
    ELSE LET half == Len(s) \div 2
         IN  toLowerCase(SubSeq(s, 1, half))
                \o toLowerCase(SubSeq(s, half + 1, Len(s)))

\* s.includes(part)
includes(s, part) ==
    \E k \in 0..(Len(s) - Len(part)) : SubSeq(s, k + 1, k + Len(part)) = part

\* the columns of columnsConfig: id, declared type, and the zero-based
\* scores index the accessor reads (-1 for title and weight)
columnsConfig ==
    << [id |-> "title", type |-> "text", scoresIdx |-> -1],
       [id |-> "weight", type |-> "text", scoresIdx |-> -1],
       [id |-> "LangeTech", type |-> "option", scoresIdx |-> 0],
       [id |-> "Best Pacific", type |-> "option", scoresIdx |-> 1],
       [id |-> "KMNM", type |-> "option", scoresIdx |-> 2],
       [id |-> "Bhilosa", type |-> "option", scoresIdx |-> 3],
       [id |-> "Tianhai Lace", type |-> "option", scoresIdx |-> 4] >>

\* columnsConfig.find(c => c.id === columnId): the position, 0 if none
findColumn(columnId) ==
    IF \E k \in 1..Len(columnsConfig) : columnsConfig[k].id = columnId
    THEN CHOOSE k \in 1..Len(columnsConfig) : columnsConfig[k].id = columnId
    ELSE 0

\* col.accessor(row) for the column at position k of columnsConfig
configAccessor(k, row) ==
    IF columnsConfig[k].id = "title" THEN row.title
    ELSE IF columnsConfig[k].id = "weight" THEN row.weight
    ELSE row.scores[columnsConfig[k].scoresIdx + 1]

\* the callback without the test for an empty values list: a text filter
\* matches when some value is contained, so never with no value
filterMatchesWithoutEmptyCase(row, filter) ==
    LET col == findColumn(filter.columnId)
    IN  IF col = 0 THEN TRUE
        ELSE IF filter.type = "text"
        THEN \E i \in 1..Len(filter.values) :
                includes(toLowerCase(configAccessor(col, row)),
                         toLowerCase(filter.values[i]))
        ELSE TRUE

\* the callback with a narrowing option type: an option filter matches a row
\* whose field is one of the values
filterMatchesOptionNarrows(row, filter) ==
    LET col == findColumn(filter.columnId)
    IN  IF col = 0 THEN TRUE
        ELSE IF filter.type = "text"
        THEN \/ Len(filter.values) = 0
             \/ \E i \in 1..Len(filter.values) :
                   includes(toLowerCase(configAccessor(col, row)),
                            toLowerCase(filter.values[i]))
        ELSE \E i \in 1..Len(filter.values) :
                configAccessor(col, row) = filter.values[i]

\* the callback of filters.every: whether row matches one filter
filterMatches(row, filter) ==
    LET col == findColumn(filter.columnId)
    IN  IF col = 0 THEN TRUE
        ELSE IF filter.type = "text"
        THEN \/ Len(filter.values) = 0
             \/ \E i \in 1..Len(filter.values) :
                   includes(toLowerCase(configAccessor(col, row)),
                            toLowerCase(filter.values[i]))
        ELSE TRUE

\* a row that passes when some filter matches it
rowMatchesSome(row, fs) == \E k \in 1..Len(fs) : filterMatches(row, fs[k])

\* filters.every(...): whether row matches every filter of fs
rowMatches(row, fs) == \A k \in 1..Len(fs) : filterMatches(row, fs[k])

\* a filter that also keeps a row when one of its children matches
filteredDataByDescendants(d, fs) ==
    LET keep(row) ==
            \/ rowMatches(row, fs)
            \/ \E c \in 1..Len(row.sub) : rowMatches(getSubRows(row)[c], fs)
    IN  SelectSeq(d, keep)

\* data.filter(...): the top-level rows of d that match every filter of fs
filteredData(d, fs) ==
    LET keep(row) == rowMatches(row, fs)
    IN  SelectSeq(d, keep)

(***************************************************************************)
(* The tree store (handleWeightChange) and the weight cell.                *)
(***************************************************************************)
SectionIdsOf(d) == {d[r].id : r \in 1..Len(d)}

SubIdsOf(d) ==
    UNION {{d[r].sub[c].id : c \in 1..Len(d[r].sub)} : r \in 1..Len(d)}

NodeIdsOf(d) == SectionIdsOf(d) \cup SubIdsOf(d)

\* the position of the top-level row that is, or holds, the node id
RowOf(d, id) ==
    CHOOSE r \in 1..Len(d) :
        d[r].id = id \/ \E c \in 1..Len(d[r].sub) : d[r].sub[c].id = id

\* getValue() of the weight cell of node id
WeightOf(d, id) ==
    LET r == RowOf(d, id)
    IN  IF d[r].id = id THEN d[r].weight
        ELSE d[r].sub[CHOOSE c \in 1..Len(d[r].sub) : d[r].sub[c].id = id].weight

\* a store that, finding no row with the id, sets the weight of every row
handleWeightChangeOrAll(prevData, rowId, value) ==
    [r \in 1..Len(prevData) |->
        IF prevData[r].id = rowId
           \/ \A q \in 1..Len(prevData) :
                 /\ prevData[q].id # rowId
                 /\ \A c \in 1..Len(prevData[q].sub) : prevData[q].sub[c].id # rowId
        THEN [prevData[r] EXCEPT !.weight = value]
        ELSE [prevData[r] EXCEPT
                !.sub = [c \in 1..Len(prevData[r].sub) |->
                            IF prevData[r].sub[c].id = rowId
                            THEN [prevData[r].sub[c] EXCEPT !.weight = value]
                            ELSE prevData[r].sub[c]]]]

\* a store that gives the children of the section the section's new weight
handleWeightChangeWithChildren(prevData, rowId, value) ==
    [r \in 1..Len(prevData) |->
        IF prevData[r].id = rowId
        THEN [prevData[r] EXCEPT
                !.weight = value,
                !.sub = [c \in 1..Len(prevData[r].sub) |->
                            [prevData[r].sub[c] EXCEPT !.weight = value]]]
        ELSE [prevData[r] EXCEPT
                !.sub = [c \in 1..Len(prevData[r].sub) |->
                            IF prevData[r].sub[c].id = rowId
                            THEN [prevData[r].sub[c] EXCEPT !.weight = value]
                            ELSE prevData[r].sub[c]]]]

handleWeightChange(prevData, rowId, value) ==
    [r \in 1..Len(prevData) |->
        IF prevData[r].id = rowId
        THEN [prevData[r] EXCEPT !.weight = value]
        ELSE [prevData[r] EXCEPT
                !.sub = [c \in 1..Len(prevData[r].sub) |->
                            IF prevData[r].sub[c].id = rowId
                            THEN [prevData[r].sub[c] EXCEPT !.weight = value]
                            ELSE prevData[r].sub[c]]]]

\* the input text a weight cell derives from the stored weight, when it
\* mounts and whenever the stored weight changes
InputOfWeight(w) ==
    LET val == parseInt(w)
    IN  IF val.isNaN THEN "" ELSE String(val.num)

\* the position in rows of the top-level row that is, or holds, the node
\* id; 0 when none is or does
TableRowOf(rows, id) ==
    IF \E r \in 1..Len(rows) :
          rows[r].id = id \/ \E c \in 1..Len(rows[r].sub) : rows[r].sub[c].id = id
    THEN CHOOSE r \in 1..Len(rows) :
             rows[r].id = id \/ \E c \in 1..Len(rows[r].sub) : rows[r].sub[c].id = id
    ELSE 0

\* whether the table body renders a row for the node id: the table holds the
\* rows the filters keep (data: filteredData), and the body renders each of
\* them, followed by its sub rows when the row at its position is expanded
Rendered(rows, ex, id) ==
    \E r \in {TableRowOf(rows, id)} :
        r # 0 /\ (rows[r].id = id \/ r \in ex)

\* the weight cell of the node id is on the page
Mounted(id) == Rendered(filteredData(data, filters), expanded, id)

\* the row id of the row of node id in the table of rows: the position of a
\* top-level row, and for a sub row the position of its parent followed by
\* its position among the sub rows.  The last position, counted from zero,
\* is row.index.
rowKey(rows, id) ==
    LET r == TableRowOf(rows, id)
    IN  IF rows[r].id = id THEN <<r>>
        ELSE <<r, CHOOSE c \in 1..Len(rows[r].sub) : rows[r].sub[c].id = id>>

\* the input texts when every weight cell has just mounted: the useState
\* initialiser derives the text from the stored weight
Remounted(d) == [id \in NodeIdsOf(d) |-> InputOfWeight(WeightOf(d, id))]

\* the ids of the rows, in their order
tableIds(rows) == [r \in 1..Len(rows) |-> rows[r].id]

\* the input texts after the table that rendered the rows before, of the
\* tree was, renders the rows after, of the tree d: React keeps the state of
\* a weight cell under the row id, so the cell of a row id that stays shows
\* its text for the node the row id now stands for, unless the weight it
\* reads changed (the effect on getValue() resets the text); the cell of a
\* new row id mounts
Rerendered(was, d, iv, ex, before, after) ==
    [id \in DOMAIN iv |->
        IF ~Rendered(after, ex, id) THEN InputOfWeight(WeightOf(d, id))
        ELSE LET key == rowKey(after, id)
                 \* the node whose row had the row id key before, or
                 \* undefined when no rendered row had it
                 old == IF key[1] > Len(before) THEN undefined
                        ELSE IF Len(key) = 1 THEN before[key[1]].id
                        ELSE IF key[1] \in ex
                                /\ key[2] <= Len(before[key[1]].sub)
                        THEN before[key[1]].sub[key[2]].id
                        ELSE undefined
             IN  IF old = undefined THEN InputOfWeight(WeightOf(d, id))
                 ELSE IF WeightOf(was, old) # WeightOf(d, id)
                 THEN InputOfWeight(WeightOf(d, id))
                 ELSE iv[old]]

\* the tree and the input texts after the weight cell of node id called
\* handleWeightChange(id, value) and setInputValue(shown) on the tree d and
\* the input texts iv, and the table rendered again: the effect on
\* getValue() resets the input text when the stored weight changed.  When
\* the new weight changes the rows the filters keep, the cells follow their
\* row ids.
Commit(d, iv, id, value, shown) ==
    LET stored == handleWeightChange(d, id, value)
    IN  [data |-> stored,
         inputValue |->
            IF filters = <<>>
               \/ tableIds(filteredData(stored, filters))
                     = tableIds(filteredData(d, filters))
            THEN [iv EXCEPT
                    ![id] = IF value # WeightOf(d, id)
                            THEN InputOfWeight(value) ELSE shown]
            ELSE Rerendered(d, stored, [iv EXCEPT ![id] = shown], expanded,
                            filteredData(d, filters),
                            filteredData(stored, filters))]

\* a step function that cuts num down to a multiple of 5 instead of rounding
CutToStep(num) == Max(0, Min(100, (num \div 5) * 5))

\* Math.max(0, Math.min(100, Math.round(num / 5) * 5)) for an integer num
RoundToStep(num) == Max(0, Min(100, ((2 * num + 5) \div 10) * 5))

\* a blur that stores a zero weight for text that is no number
BlurValueZeroWhenNaN(t) ==
    LET num == parseInt(t)
    IN  IF num.isNaN THEN "0%" ELSE String(RoundToStep(num.num)) \o "%"

\* the weight handleInputBlur stores for the input text t
BlurValue(t) ==
    LET num == parseInt(t)
    IN  IF num.isNaN THEN "" ELSE String(RoundToStep(num.num)) \o "%"

\* the input text handleInputBlur leaves for the input text t
BlurShown(t) == IF parseInt(t).isNaN THEN "" ELSE t

\* /^\d{0,3}$/
MatchesUpTo3Digits(val) ==
    Len(val) <= 3 /\ \A i \in 1..Len(val) : IsDigit(Ch(val, i))

\* the tree and the input texts after the input that has focus, if any,
\* lost it: its handleInputBlur ran
Blurred ==
    IF focus = NoFocus THEN [data |-> data, inputValue |-> inputValue]
    ELSE Commit(data, inputValue, focus, BlurValue(inputValue[focus]),
                BlurShown(inputValue[focus]))

\* the blur of the input that has focus leaves the rows of the table as they
\* are, so that the cell under the pointer is still the one the user aimed at
BlurKeepsRows ==
    \/ filters = <<>>
    \/ tableIds(filteredData(Blurred.data, filters))
          = tableIds(filteredData(data, filters))

\* the input texts after a handler set contextMenu to menu, the tree being d
\* and the input texts iv: `columns` is a useMemo on [handleWeightChange,
\* contextMenu], so a contextMenu that changed makes every cell function
\* anew and every weight cell mounts again; setContextMenu(null) on a null
\* contextMenu changes nothing
AfterMenu(d, iv, menu) ==
    IF menu = NoMenu /\ contextMenu = NoMenu THEN iv ELSE Remounted(d)

\* the user clicks into the weight input of node id; an input that had
\* focus loses it.  The input stops the click, so the window's click
\* listener does not run.
FocusInput(id) ==
    /\ ~showBidDetails /\ BlurKeepsRows
    /\ id \in NodeIdsOf(data) /\ Mounted(id) /\ focus # id
    /\ \E b \in {Blurred} : data' = b.data /\ inputValue' = b.inputValue
    /\ focus' = id
    /\ UNCHANGED <<expanded, clicks, contextMenu, showBidDetails, columnVars,
                   filters, chatVars, callVars>>

handleInputChange(val) ==
    /\ focus # NoFocus
    /\ inputValue' =
          IF val = "" \/ MatchesUpTo3Digits(val)
          THEN [inputValue EXCEPT ![focus] = val]
          ELSE inputValue
    /\ UNCHANGED <<data, expanded, focus, clicks, contextMenu, showBidDetails,
                   columnVars, filters, chatVars, callVars>>

\* the focus leaves the weight input without a click, as by the Tab key
handleInputBlur ==
    /\ focus # NoFocus
    /\ \E b \in {Blurred} : data' = b.data /\ inputValue' = b.inputValue
    /\ focus' = NoFocus
    /\ UNCHANGED <<expanded, clicks, contextMenu, showBidDetails, columnVars,
                   filters, chatVars, callVars>>

\* parseInt(inputValue || '0') || 0
CurrentOf(t) == OrZero(parseInt(IF t = "" THEN "0" ELSE t))

DecrementNext(t) == Max(0, CurrentOf(t) - 5)

IncrementNext(t) == Min(100, CurrentOf(t) + 5)

\* a click on the -5 button of node id: the click takes the focus, so an
\* input that had it is blurred before the button's onClick runs; the
\* button stops the click
DecrementClick(id) ==
    /\ ~showBidDetails /\ BlurKeepsRows
    /\ id \in NodeIdsOf(data) /\ Mounted(id) /\ clicks < MaxClicks
    /\ \E b \in {Blurred} :
          \E next \in {DecrementNext(b.inputValue[id])} :
             \E done \in {Commit(b.data, b.inputValue, id,
                                 String(next) \o "%", String(next))} :
                data' = done.data /\ inputValue' = done.inputValue
    /\ focus' = NoFocus
    /\ clicks' = clicks + 1
    /\ UNCHANGED <<expanded, contextMenu, showBidDetails, columnVars, filters,
                   chatVars, callVars>>

\* a click on the +5 button of node id
IncrementClick(id) ==
    /\ ~showBidDetails /\ BlurKeepsRows
    /\ id \in NodeIdsOf(data) /\ Mounted(id) /\ clicks < MaxClicks
    /\ \E b \in {Blurred} :
          \E next \in {IncrementNext(b.inputValue[id])} :
             \E done \in {Commit(b.data, b.inputValue, id,
                                 String(next) \o "%", String(next))} :
                data' = done.data /\ inputValue' = done.inputValue
    /\ focus' = NoFocus
    /\ clicks' = clicks + 1
    /\ UNCHANGED <<expanded, contextMenu, showBidDetails, columnVars, filters,
                   chatVars, callVars>>

\* a click on the top-level row at position r of the table, outside the
\* weight cell: the row takes the focus, row.toggleExpanded() runs (the
\* weight cells of the sub rows mount with the text of their stored weight),
\* and the click goes on to the window, whose listener closes the context
\* menu
ToggleExpanded(r) ==
    /\ ~showBidDetails /\ BlurKeepsRows
    /\ \E rows \in {filteredData(data, filters)} :
          /\ r \in 1..Len(rows) /\ Len(getSubRows(rows[r])) > 0
          /\ \E b \in {Blurred} :
                /\ data' = b.data
                /\ inputValue' =
                      AfterMenu(b.data,
                                [id \in DOMAIN b.inputValue |->
                                    IF \E c \in 1..Len(rows[r].sub) :
                                          rows[r].sub[c].id = id
                                    THEN InputOfWeight(WeightOf(b.data, id))
                                    ELSE b.inputValue[id]],
                                NoMenu)
    /\ expanded' = IF r \in expanded THEN expanded \ {r} ELSE expanded \cup {r}
    /\ contextMenu' = NoMenu
    /\ focus' = NoFocus
    /\ UNCHANGED <<clicks, showBidDetails, columnVars, filters, chatVars,
                   callVars>>

\* a right click on the vendor cell of node id in the column of the vendor
\* index vendorIdx: the pointer going down takes the focus from the weight
\* input, then onContextMenu sets contextMenu to the cell's row index and
\* vendor index (setSelectedBid, which only the dialog reads, is left out)
onContextMenu(id, vendorIdx) ==
    /\ ~showBidDetails /\ BlurKeepsRows
    /\ id \in NodeIdsOf(data) /\ Mounted(id)
    /\ vendorIdx \in 0..(Len(vendorColumnIds) - 1)
    /\ contextMenu' =
          LET key == rowKey(filteredData(data, filters), id)
          IN  [rowIdx |-> key[Len(key)] - 1, colIdx |-> vendorIdx]
    /\ \E b \in {Blurred} :
          /\ data' = b.data
          /\ inputValue' = AfterMenu(b.data, b.inputValue, contextMenu')
    /\ focus' = NoFocus
    /\ UNCHANGED <<expanded, clicks, showBidDetails, columnVars, filters,
                   chatVars, callVars>>

\* a click that no handler of the page stops arrives at the window: the
\* click takes the focus from the weight input and closeMenu runs
closeMenu ==
    /\ ~showBidDetails
    /\ \E b \in {Blurred} :
          /\ data' = b.data
          /\ inputValue' = AfterMenu(b.data, b.inputValue, NoMenu)
    /\ contextMenu' = NoMenu
    /\ focus' = NoFocus
    /\ UNCHANGED <<expanded, clicks, showBidDetails, columnVars, filters,
                   chatVars, callVars>>

\* a click on the Bid Details button of the context menu shown in the
\* vendor cell of node id, a cell whose row index and vendor index are those
\* of contextMenu: the dialog opens and the menu closes; the click goes on
\* to the row, which toggles when it is a top-level row, and to the window
BidDetails(id) ==
    /\ ~showBidDetails /\ BlurKeepsRows
    /\ contextMenu # NoMenu
    /\ id \in NodeIdsOf(data) /\ Mounted(id)
    /\ \E rows \in {filteredData(data, filters)} :
          /\ rowKey(rows, id)[Len(rowKey(rows, id))] - 1 = contextMenu.rowIdx
          /\ \E b \in {Blurred} :
                /\ data' = b.data
                /\ inputValue' = Remounted(b.data)
          /\ expanded' =
                LET r == TableRowOf(rows, id)
                IN  IF Len(rowKey(rows, id)) > 1 THEN expanded
                    ELSE IF r \in expanded THEN expanded \ {r}
                    ELSE expanded \cup {r}
    /\ showBidDetails' = TRUE
    /\ contextMenu' = NoMenu
    /\ focus' = NoFocus
    /\ UNCHANGED <<clicks, columnVars, filters, chatVars, callVars>>

\* the Bid Details dialog closes: onOpenChange(false)
closeBidDetails ==
    /\ showBidDetails
    /\ showBidDetails' = FALSE
    /\ UNCHANGED <<data, expanded, inputValue, focus, clicks, contextMenu,
                   columnVars, filters, chatVars, callVars>>

(***************************************************************************)
(* Initial states and the specification of weight editing.                 *)
(***************************************************************************)
TreeInit(seeds) ==
    /\ \E seed \in seeds : data = initialTableData(SampleDraws(seed))
    /\ expanded = {}
    /\ inputValue = Remounted(data)
    /\ focus = NoFocus
    /\ clicks = 0
    /\ contextMenu = NoMenu
    /\ showBidDetails = FALSE

ColumnInit ==
    /\ columnOrder = allColumnIds
    /\ renderedOrder = columnOrder
    /\ dragItem = NoItem
    /\ pointer = NoPointer

FilterInit == filters = <<>>

\* useChat({}) before any message: no messages, an empty input, no error
ChatInit ==
    /\ messages = <<>>
    /\ input = ""
    /\ status = "ready"
    /\ error = undefined
    /\ requests = 0

CallInit == callArgs = NoArgs /\ callResult = NoResult

Init ==
    /\ TreeInit(0..(NumSeeds - 1))
    /\ ColumnInit
    /\ FilterInit
    /\ ChatInit
    /\ CallInit

\* what the user types into a weight input
TypedValues == {"", "3", "1000"}

\* the weight cells the user edits in the runs explored
EditedNodes == {"5.1", "5.1.1", "5.2"}

\* the weight cells whose -5 and +5 buttons the user clicks
ClickedNodes == {"5.1", "5.1.1"}

\* the positions of the rows the user clicks on
ToggledRows == {1}

\* the vendor cells the user right-clicks: node and vendor index
MenuCells == {<<"5.1", 0>>, <<"5.1.1", 1>>}

Next ==
    \/ \E id \in EditedNodes : FocusInput(id)
    \/ \E val \in TypedValues : handleInputChange(val)
    \/ handleInputBlur
    \/ \E id \in ClickedNodes : DecrementClick(id)
    \/ \E id \in ClickedNodes : IncrementClick(id)
    \/ \E r \in ToggledRows : ToggleExpanded(r)
    \/ \E cell \in MenuCells : onContextMenu(cell[1], cell[2])
    \/ closeMenu
    \/ \E id \in {cell[1] : cell \in MenuCells} : BidDetails(id)
    \/ closeBidDetails

Spec == Init /\ [][Next]_vars

\* the section whose weight the user sets to any value
AdjustedSection == "5.1"

\* what the user types into the weight inputs of the sections, as pairs of
\* section id and text: every section is cleared, one is also set to zero
\* and to a value off the grid of fives
SectionInputs ==
    ({sectionIds[k] : k \in 1..Len(sectionIds)} \X {""})
        \cup ({AdjustedSection} \X {"0", "3"})

\* the user sets the weights of the sections: a click into the weight input
\* of a section, a text typed, the focus taken away, a click on a button
NextSections ==
    \/ \E r \in 1..Len(data) : FocusInput(data[r].id)
    \/ \E t \in SectionInputs : focus = t[1] /\ handleInputChange(t[2])
    \/ handleInputBlur
    \/ DecrementClick(AdjustedSection)
    \/ IncrementClick(AdjustedSection)

SpecSections == Init /\ [][NextSections]_vars

(***************************************************************************)
(* Properties of weight editing (specifications Spec and SpecSections).    *)
(***************************************************************************)
\* the weights of the grid: n% for the multiples n of 5 from 0 to 100
GridWeights == {String(5 * k) \o "%" : k \in 0..20}

\* C1: after any sequence of weight edits (typing then blur, +5, -5) every
\* stored weight is the empty string or n% with n a multiple of 5 in [0, 100].
C1_WeightsOnGrid ==
    \A id \in NodeIdsOf(data) :
        WeightOf(data, id) = "" \/ WeightOf(data, id) \in GridWeights

\* every section weight is unset or zero
AllSectionWeightsZero ==
    \A r \in 1..Len(data) : data[r].weight \in {"", "0%"}

\* C3: when the section weights sum to 0 (every one of them unset or zero)
\* the overall score under every vendor is 0 and the footer shows it, in
\* every state that weight edits reach.
C3_ZeroTotalWeightScoresZero ==
    (AllSectionWeightsZero \/ SumSeq(sectionWeights(data)) = 0)
        => \A v \in 1..Len(vendorColumnIds) :
              /\ overallScore(data, vendorColumnIds[v]) = Num(0)
              /\ footerCell(data, vendorColumnIds[v]) = "0%"

\* edits cleared one section weight and zeroed another
C3_Witness ==
    /\ AllSectionWeightsZero
    /\ \E r \in 1..Len(data) : data[r].weight = ""
    /\ \E r \in 1..Len(data) : data[r].weight = "0%"

\* the sections that count in the overall score: those of positive weight
Weighted(ws) == {k \in 1..Len(ws) : ws[k] > 0}

\* C29: when the total section weight is positive and no weight is negative,
\* the overall score lies between the smallest and the largest score of the
\* sections of positive weight; so in every state that weight edits reach
\* every vendor's overall score is within [0, 100], and it is the score of a
\* section when that section alone has a non-zero weight.
C29_OverallWithinSectionScores ==
    \A ws \in {sectionWeights(data)} :
      \A v \in 1..Len(vendorColumnIds) :
        \A ss \in {sectionScores(data, v - 1)} :
          \A res \in {calculateOverallScore(ss, ws)} :
            /\ ~res.isNaN
            /\ 0 <= res.num /\ res.num <= 1000
            /\ ((\A k \in 1..Len(ws) : ws[k] >= 0) /\ SumSeq(ws) > 0)
                  => /\ \E k \in Weighted(ws) : 10 * ss[k] <= res.num
                     /\ \E k \in Weighted(ws) : res.num <= 10 * ss[k]
            /\ \A k \in 1..Len(ws) :
                  (ws[k] # 0 /\ \A j \in 1..Len(ws) : j # k => ws[j] = 0)
                     => res.num = 10 * ss[k]

\* edits left one section with a weight, and the first vendor's overall score
\* is that section's score, which is not the score of every section
C29_Witness ==
    LET ss == sectionScores(data, 0)
        ws == sectionWeights(data)
    IN  /\ Cardinality({k \in 1..Len(ws) : ws[k] # 0}) = 1
        /\ \E k \in 1..Len(ws) :
              /\ ws[k] > 0
              /\ overallScore(data, vendorColumnIds[1]) = Num(10 * ss[k])
              /\ \E j \in 1..Len(ws) : ss[j] # ss[k]

(***************************************************************************)
(* The overall score as a function (specification SpecScore).              *)
(***************************************************************************)
\* the longest score and weight vectors a call is made with
MaxLen == 2

ScoreSamples == {0, 1, 60, 80, 100}

WeightSamples == {0, 5, 15, 50}

\* the calls of calculateOverallScore: vectors of equal length, as the
\* footer passes them
ScoreCalls ==
    UNION {
        {[fn |-> "calculateOverallScore", sectionScores |-> ss, weights |-> ws] :
            ss \in [1..n -> ScoreSamples], ws \in [1..n -> WeightSamples]}
        : n \in 0..MaxLen}

InitScore ==
    /\ TreeInit({0})
    /\ ColumnInit
    /\ FilterInit
    /\ ChatInit
    /\ callArgs \in ScoreCalls
    /\ callResult = NoResult

CallCalculateOverallScore ==
    /\ callArgs.fn = "calculateOverallScore"
    /\ ~callResult.returned
    /\ callResult' =
          [returned |-> TRUE,
           value |-> calculateOverallScore(callArgs.sectionScores,
                                           callArgs.weights)]
    /\ UNCHANGED <<treeVars, columnVars, filters, chatVars, callArgs>>

NextScore == CallCalculateOverallScore

SpecScore == InitScore /\ [][NextScore]_vars

\* the sum of score[i] * weight[i] of the call
CallWeightedSum ==
    SumSeq([i \in 1..Len(callArgs.weights) |->
               callArgs.sectionScores[i] * callArgs.weights[i]])

Abs(x) == IF x < 0 THEN 0 - x ELSE x

\* C2: for score and weight vectors of equal length with positive total
\* weight, calculateOverallScore returns the weighted mean
\* sum(score[i] * weight[i]) / sum(weight[i]) rounded to one decimal place:
\* a multiple of 0.1 at most 0.05 away from the mean; scores [80, 60] with
\* weights [50, 50] give 70.0.
C2_WeightedMeanRounded ==
    (callResult.returned /\ SumSeq(callArgs.weights) > 0)
        => /\ ~callResult.value.isNaN
           /\ 2 * Abs(callResult.value.num * SumSeq(callArgs.weights)
                      - 10 * CallWeightedSum)
                 <= SumSeq(callArgs.weights)
           /\ (callArgs.sectionScores = <<80, 60>> /\ callArgs.weights = <<50, 50>>)
                 => callResult.value = Num(700)

\* the call of the example has returned
C2_Witness ==
    /\ callResult.returned
    /\ callArgs.sectionScores = <<80, 60>>
    /\ callArgs.weights = <<50, 50>>
    /\ FormatTenths(callResult.value) = "70"


(***************************************************************************)
(* The column order: moveColumn and the draggable headers.                 *)
(***************************************************************************)
\* arr[i], i zero-based
at(arr, i) == IF i >= 0 /\ i < Len(arr) THEN arr[i + 1] ELSE undefined

\* arr.slice(from), and arr.slice(0, to), for 0 <= from, to
sliceFrom(arr, from) == SubSeq(arr, Min(from, Len(arr)) + 1, Len(arr))

sliceTo(arr, to) == SubSeq(arr, 1, Min(to, Len(arr)))

\* the start index Array.prototype.splice works with: a negative start
\* counts from the end, and the result is clamped to 0..len
spliceStart(len, start) ==
    IF start < 0 THEN Max(len + start, 0) ELSE Min(start, len)

\* arr after arr.splice(start, 1)
spliceRemove(arr, start) ==
    LET s == spliceStart(Len(arr), start)
    IN  SubSeq(arr, 1, s) \o SubSeq(arr, s + 2, Len(arr))

\* arr after arr.splice(start, 0, x)
spliceInsert(arr, start, x) ==
    LET s == spliceStart(Len(arr), start)
    IN  SubSeq(arr, 1, s) \o <<x>> \o SubSeq(arr, s + 1, Len(arr))

\* a move that takes both indexes as positions in the whole order, pinned
\* columns included
moveColumnInWholeOrder(order, dragIndex, hoverIndex) ==
    spliceInsert(spliceRemove(order, dragIndex), hoverIndex, at(order, dragIndex))

\* a move that exchanges the columns at the two indexes
moveColumnBySwap(order, dragIndex, hoverIndex) ==
    [p \in 1..Len(order) |->
        IF p = dragIndex + 1 THEN at(order, hoverIndex)
        ELSE IF p = hoverIndex + 1 THEN at(order, dragIndex)
        ELSE order[p]]

\* a move that inserts the dragged column without taking it out first
moveColumnWithoutRemove(order, dragIndex, hoverIndex) ==
    LET pinned == sliceTo(order, Len(pinnedColumnIds))
        vendors == sliceFrom(order, Len(pinnedColumnIds))
        dragCol == at(vendors, dragIndex - Len(pinnedColumnIds))
    IN  pinned \o spliceInsert(vendors, hoverIndex - Len(pinnedColumnIds), dragCol)

\* a move that puts the dragged column in one place after the hovered one
moveColumnAfterHover(order, dragIndex, hoverIndex) ==
    LET pinned == sliceTo(order, Len(pinnedColumnIds))
        vendors == sliceFrom(order, Len(pinnedColumnIds))
        dragCol == at(vendors, dragIndex - Len(pinnedColumnIds))
        removed == spliceRemove(vendors, dragIndex - Len(pinnedColumnIds))
    IN  pinned
            \o spliceInsert(removed, hoverIndex - Len(pinnedColumnIds) + 1, dragCol)

\* the order moveColumn(dragIndex, hoverIndex) passes to setColumnOrder when
\* the column order is order
moveColumn(order, dragIndex, hoverIndex) ==
    LET pinned == sliceTo(order, Len(pinnedColumnIds))
        vendors == sliceFrom(order, Len(pinnedColumnIds))
        dragCol == at(vendors, dragIndex - Len(pinnedColumnIds))
        removed == spliceRemove(vendors, dragIndex - Len(pinnedColumnIds))
    IN  pinned \o spliceInsert(removed, hoverIndex - Len(pinnedColumnIds), dragCol)

\* a header that takes every column for draggable
isDraggableAlways(id) == TRUE

\* vendorColumnIds.includes(id)
isDraggable(id) == \E k \in 1..Len(vendorColumnIds) : vendorColumnIds[k] = id

\* the column id of the header rendered at the zero-based position index
headerId(index) == renderedOrder[index + 1]

HeaderIndexes == 0..(Len(renderedOrder) - 1)

\* the pointer goes down on the header at index and starts to move: the
\* weight input that had the focus loses it, and a drag begins when the
\* header's column can be dragged
PointerDown(index) ==
    /\ ~showBidDetails
    /\ pointer = NoPointer
    /\ index \in HeaderIndexes
    /\ pointer' = [down |-> index, over |-> index]
    /\ dragItem' = IF isDraggable(headerId(index))
                   THEN [id |-> headerId(index), index |-> index]
                   ELSE NoItem
    /\ \E b \in {Blurred} : data' = b.data /\ inputValue' = b.inputValue
    /\ focus' = NoFocus
    /\ UNCHANGED <<expanded, clicks, contextMenu, showBidDetails, columnOrder,
                   renderedOrder, filters, chatVars, callVars>>

\* the pointer, held down, comes over the header at index; in a drag the
\* header's hover handler runs, with the index and the moveColumn of the
\* last render
PointerOver(index) ==
    /\ pointer # NoPointer
    /\ index \in HeaderIndexes
    /\ pointer' = [pointer EXCEPT !.over = index]
    /\ IF dragItem = NoItem
          \/ ~isDraggable(headerId(index))
          \/ dragItem.index = index
       THEN UNCHANGED <<columnOrder, dragItem>>
       ELSE /\ columnOrder' = moveColumn(renderedOrder, dragItem.index, index)
            /\ dragItem' = [dragItem EXCEPT !.index = index]
    /\ UNCHANGED <<treeVars, renderedOrder, filters, chatVars, callVars>>

\* the pointer is released: a drag ends; without a drag the release is a
\* click, which arrives at the window, whose listener closes the context menu
PointerUp ==
    /\ pointer # NoPointer
    /\ pointer' = NoPointer
    /\ dragItem' = NoItem
    /\ IF dragItem = NoItem
       THEN /\ contextMenu' = NoMenu
            /\ inputValue' = AfterMenu(data, inputValue, NoMenu)
       ELSE UNCHANGED <<contextMenu, inputValue>>
    /\ UNCHANGED <<data, expanded, focus, clicks, showBidDetails, columnOrder,
                   renderedOrder, filters, chatVars, callVars>>

\* React renders the component with the column order that was set.  The
\* render of an order that holds undefined does not complete: the footer
\* cell of that column reads scores[-1].replace and throws, so the headers
\* of such an order are never shown.
Render ==
    /\ renderedOrder # columnOrder
    /\ \A p \in 1..Len(columnOrder) : columnOrder[p] # undefined
    /\ renderedOrder' = columnOrder
    /\ UNCHANGED <<treeVars, columnOrder, dragItem, pointer, filters, chatVars,
                   callVars>>

NextDrag ==
    \/ \E index \in HeaderIndexes : PointerDown(index)
    \/ \E index \in HeaderIndexes : PointerOver(index)
    \/ PointerUp
    \/ Render

\* the page as it starts: the gestures do not depend on the scores drawn
InitDrag ==
    /\ TreeInit({0})
    /\ ColumnInit
    /\ FilterInit
    /\ ChatInit
    /\ CallInit

SpecDrag == InitDrag /\ [][NextDrag]_vars

(***************************************************************************)
(* moveColumn as a function (specification SpecMove).                      *)
(***************************************************************************)
\* the orders the table can show: the pinned columns, then the vendor
\* columns in any order
ReachableOrders ==
    {pinnedColumnIds \o [k \in 1..Len(vendorColumnIds) |-> vendorColumnIds[f[k]]] :
        f \in {g \in [1..Len(vendorColumnIds) -> 1..Len(vendorColumnIds)] :
                  \A a, b \in 1..Len(vendorColumnIds) : a # b => g[a] # g[b]}}

\* the calls moveColumn(dragIndex, hoverIndex) with positions of the whole order
InitMove ==
    /\ TreeInit({0})
    /\ columnOrder \in ReachableOrders
    /\ renderedOrder = columnOrder
    /\ dragItem = NoItem
    /\ pointer = NoPointer
    /\ FilterInit
    /\ ChatInit
    /\ \E dragIndex, hoverIndex \in 0..(Len(allColumnIds) - 1) :
          callArgs = [fn |-> "moveColumn", order |-> columnOrder,
                      dragIndex |-> dragIndex, hoverIndex |-> hoverIndex]
    /\ callResult = NoResult

\* the call moveColumn(dragIndex, hoverIndex) of the last render: it sets
\* the column order; the render of the order set is a later step
CallMoveColumn ==
    /\ callArgs.fn = "moveColumn"
    /\ ~callResult.returned
    /\ columnOrder' = moveColumn(renderedOrder, callArgs.dragIndex, callArgs.hoverIndex)
    /\ callResult' = [returned |-> TRUE, value |-> columnOrder']
    /\ UNCHANGED <<treeVars, renderedOrder, dragItem, pointer, filters,
                   chatVars, callArgs>>

NextMove == CallMoveColumn \/ Render

SpecMove == InitMove /\ [][NextMove]_vars

PinnedPositions == 0..(Len(pinnedColumnIds) - 1)

\* C4: every call moveColumn(fromIndex, toIndex) with positions of the whole
\* order leaves the order as long as it was, with 'title' and 'weight' at
\* positions 0 and 1.
C4_LengthAndPinnedPrefixKept ==
    callResult.returned
        => /\ Len(columnOrder) = Len(callArgs.order)
           /\ at(columnOrder, 0) = "title"
           /\ at(columnOrder, 1) = "weight"
           /\ \A p \in PinnedPositions : at(columnOrder, p) = at(callArgs.order, p)

\* a call whose source is a pinned position has returned and changed the order
C4_Witness ==
    /\ callResult.returned
    /\ callArgs.dragIndex \in PinnedPositions
    /\ columnOrder # callArgs.order

\* the reorderable suffix of an order
SuffixOf(order) ==
    [k \in 1..(Len(order) - Len(pinnedColumnIds)) |-> order[k + Len(pinnedColumnIds)]]

\* seq without its element at the zero-based index i
Without(seq, i) ==
    [k \in 1..(Len(seq) - 1) |-> IF k <= i THEN seq[k] ELSE seq[k + 1]]

\* C6: with source and destination both in the reorderable suffix, moveColumn
\* takes the element at the suffix-relative source index out and puts it in
\* at the suffix-relative destination index; the other reorderable elements
\* keep their relative order and the pinned columns their positions.  Moving
\* suffix index 2 to suffix index 0 turns [A, B, C, D, E] into [C, A, B, D, E].
C6_RemoveThenInsertInSuffix ==
    (/\ callResult.returned
     /\ callArgs.dragIndex \notin PinnedPositions
     /\ callArgs.hoverIndex \notin PinnedPositions)
        => LET from == callArgs.dragIndex - Len(pinnedColumnIds)
               to == callArgs.hoverIndex - Len(pinnedColumnIds)
               old == SuffixOf(callArgs.order)
               new == SuffixOf(columnOrder)
           IN  /\ Len(new) = Len(old)
               /\ new[to + 1] = old[from + 1]
               /\ Without(new, to) = Without(old, from)
               /\ \A p \in PinnedPositions :
                     at(columnOrder, p) = at(callArgs.order, p)
               /\ (old = vendorColumnIds /\ from = 2 /\ to = 0)
                     => new = <<"KMNM", "LangeTech", "Best Pacific",
                                "Bhilosa", "Tianhai Lace">>

\* the move of the example has returned
C6_Witness ==
    /\ callResult.returned
    /\ callArgs.order = allColumnIds
    /\ callArgs.dragIndex = 4
    /\ callArgs.hoverIndex = 2
    /\ SuffixOf(columnOrder) =
          <<"KMNM", "LangeTech", "Best Pacific", "Bhilosa", "Tianhai Lace">>

\* C7: moveColumn(i, i) leaves the column order unchanged for every index i
\* of a header that takes part in a drag, which are the headers of the vendor
\* columns (hover returns before the call on a header that is not draggable),
\* and one more such call on the order it gave leaves that unchanged too.
C7_SameIndexIsNoOp ==
    (/\ callResult.returned
     /\ callArgs.dragIndex = callArgs.hoverIndex
     /\ isDraggable(at(callArgs.order, callArgs.dragIndex)))
        => /\ columnOrder = callArgs.order
           /\ moveColumn(columnOrder, callArgs.dragIndex, callArgs.hoverIndex)
                 = columnOrder

\* a call with the index of the same vendor header twice has returned, on an
\* order other than the one the table starts with
C7_Witness ==
    /\ callResult.returned
    /\ callArgs.dragIndex = 3
    /\ callArgs.hoverIndex = 3
    /\ callArgs.order # allColumnIds
    /\ columnOrder = callArgs.order

(***************************************************************************)
(* Properties of the draggable headers (specification SpecDrag).           *)
(***************************************************************************)
\* C5: an attempt to move a pinned column (a gesture that starts on a header
\* in the pinned prefix) or to move a column into a pinned slot (the pointer
\* comes over a header in the pinned prefix) is rejected: no drag item is
\* made of a pinned column and the column order stays as it is.
C5_PinnedMovesRejected ==
    [][/\ (pointer'.down \in PinnedPositions \/ pointer'.over \in PinnedPositions)
            => columnOrder' = columnOrder
       /\ pointer'.down \in PinnedPositions => dragItem' = NoItem
       /\ dragItem' # NoItem => dragItem'.index \notin PinnedPositions]_vars

\* a vendor column, moved already, is dragged over a pinned header
C5_Witness ==
    /\ dragItem # NoItem
    /\ pointer.over \in PinnedPositions
    /\ columnOrder # allColumnIds

\* the row.getVisibleCells() values of a row: one cell per column, in the
\* column order, each read by the accessor of its column
accessor(colId, row) ==
    IF colId = "title" THEN row.title
    ELSE IF colId = "weight" THEN row.weight
    ELSE row.scores[indexOf(vendorColumnIds, colId) + 1]

visibleCells(row) ==
    [p \in 1..Len(renderedOrder) |-> accessor(renderedOrder[p], row)]

\* a footer that aggregates the rows the filters leave
footerDataFiltered == filteredData(data, filters)

\* the rows the footer aggregates: data.find(...) reads the whole tree
footerData == data

\* the cells of the footer row, in the column order
footerRow ==
    [p \in 1..Len(renderedOrder) |-> footerCell(footerData, renderedOrder[p])]

\* the index each vendor has in the scores arrays from construction on
FixedIndex ==
    [colId \in {vendorColumnIds[k] : k \in 1..Len(vendorColumnIds)} |->
        CHOOSE k \in 1..Len(allColumnIds) : allColumnIds[k] = colId]

\* C8: after any sequence of column reorders, the scores displayed and
\* aggregated under a vendor's column are those at the vendor's fixed index
\* in every node's scores array, its position in the vendor list at
\* construction.  Checked under SpecMove, over every order of the vendor
\* columns and the order every call of moveColumn makes of it, before and
\* after the render of the order set.
C8_ScoresFollowVendor ==
    \A p \in 1..Len(renderedOrder) :
        renderedOrder[p] \in DOMAIN FixedIndex
            => \A k \in {FixedIndex[renderedOrder[p]] - Len(pinnedColumnIds)} :
                  /\ \A r \in 1..Len(data) :
                        /\ visibleCells(data[r])[p] = data[r].scores[k]
                        /\ \A c \in 1..Len(data[r].sub) :
                              visibleCells(getSubRows(data[r])[c])[p]
                                 = data[r].sub[c].scores[k]
                  /\ footerRow[p] =
                        FormatTenths(calculateOverallScore(
                            sectionScores(data, k - 1), sectionWeights(data)))
                        \o "%"

\* a move from the initial order has put the column of the last vendor into
\* the first vendor slot
C8_Witness ==
    /\ callResult.returned
    /\ callArgs.order = allColumnIds
    /\ headerId(Len(pinnedColumnIds)) = "Tianhai Lace"
    /\ visibleCells(data[1])[Len(pinnedColumnIds) + 1] = data[1].scores[5]
    /\ visibleCells(data[1])[Len(pinnedColumnIds) + 1] # data[1].scores[1]

\* C22: every column move operates on the state the moves completed before
\* it produced, two moves of one drag gesture made before the view is
\* rendered again included: the order a hover sets is the move of the dragged
\* column, from where the item says it is to the header hovered, applied to
\* the order set last, so that no move is lost.
C22_MovesApplyInSequence ==
    [][(dragItem # NoItem /\ dragItem' # NoItem /\ dragItem'.index # dragItem.index)
          => columnOrder' = moveColumn(columnOrder, dragItem.index, dragItem'.index)]_vars

\* whether order holds each of the seven column ids exactly once
IsColumnPermutation(order) ==
    /\ Len(order) = Len(allColumnIds)
    /\ \A k \in 1..Len(allColumnIds) :
          Cardinality({p \in 1..Len(order) : order[p] = allColumnIds[k]}) = 1
    /\ \A p \in 1..Len(order) : order[p] # undefined

\* C27: in every state reachable through drag and hover events on the
\* header cells, the column order, as set and as rendered, holds each of the
\* seven column ids exactly once, none missing, doubled or undefined, so the
\* footer has exactly one overall-score cell for each vendor.
C27_OrderIsPermutation ==
    /\ IsColumnPermutation(columnOrder)
    /\ IsColumnPermutation(renderedOrder)
    /\ footerCell(data, renderedOrder[1]) = "Overall Score"
    /\ footerCell(data, renderedOrder[2]) = ""
    /\ \A v \in 1..Len(vendorColumnIds) :
          Cardinality({p \in 1..Len(renderedOrder) :
                          /\ p > Len(pinnedColumnIds)
                          /\ footerVendorIdx(renderedOrder[p]) = v - 1}) = 1
    /\ \A p \in 1..Len(renderedOrder) :
          p > Len(pinnedColumnIds)
             => footerVendorIdx(renderedOrder[p]) \in 0..(Len(vendorColumnIds) - 1)

\* in a drag, a second hover came before the render of the first move: the
\* order set is not the order shown, and the dragged column is not where the
\* drag item says
C27_Witness ==
    /\ dragItem # NoItem
    /\ renderedOrder # columnOrder
    /\ columnOrder[dragItem.index + 1] # dragItem.id
    /\ columnOrder # allColumnIds

(***************************************************************************)
(* The filter bar (specification SpecFilter).                              *)
(***************************************************************************)
\* how many predicates the filter list may hold
MaxFilters == 2

FilterColumns == {"title", "LangeTech"}

FilterValueLists == {<<>>, <<"zzz", "SERVICE">>, <<"cost", "6">>}

FilterPredicates ==
    [columnId : FilterColumns, type : {"text", "option"}, values : FilterValueLists]

\* the input texts after a click in the filter bar set the filters to fs:
\* the click took the focus from the weight input (b is the tree and the
\* texts after its blur), the table renders the rows that fs keeps, and the
\* click arrives at the window, whose listener closes the context menu
AfterFilters(b, fs) ==
    AfterMenu(b.data,
              Rerendered(b.data, b.data, b.inputValue, expanded,
                         filteredData(b.data, filters),
                         filteredData(b.data, fs)),
              NoMenu)

\* the filter bar adds the predicate f to the list
addFilter(f) ==
    /\ ~showBidDetails
    /\ Len(filters) < MaxFilters
    /\ filters' = Append(filters, f)
    /\ \E b \in {Blurred} :
          data' = b.data /\ inputValue' = AfterFilters(b, filters')
    /\ contextMenu' = NoMenu
    /\ focus' = NoFocus
    /\ UNCHANGED <<expanded, clicks, showBidDetails, columnVars, callVars,
                   chatVars>>

\* the filter bar takes the predicate at position k off the list
removeFilter(k) ==
    /\ ~showBidDetails
    /\ k \in 1..Len(filters)
    /\ filters' = [n \in 1..(Len(filters) - 1) |->
                      IF n < k THEN filters[n] ELSE filters[n + 1]]
    /\ \E b \in {Blurred} :
          data' = b.data /\ inputValue' = AfterFilters(b, filters')
    /\ contextMenu' = NoMenu
    /\ focus' = NoFocus
    /\ UNCHANGED <<expanded, clicks, showBidDetails, columnVars, callVars,
                   chatVars>>

NextFilter ==
    \/ \E f \in FilterPredicates : addFilter(f)
    \/ \E k \in 1..Len(filters) : removeFilter(k)

SpecFilter == Init /\ [][NextFilter]_vars

\* the two cases of each letter
CasePairs == {{c, lowerOf[c]} : c \in DOMAIN lowerOf}

\* whether the characters a and b are the same letter in either case
SameIgnoringCase(a, b) == a = b \/ {a, b} \in CasePairs

\* whether field contains part as a substring, ignoring case
ContainsIgnoringCase(field, part) ==
    \E k \in 0..(Len(field) - Len(part)) :
        \A i \in 1..Len(part) :
            SameIgnoringCase(Ch(field, k + i), Ch(part, i))

\* the field of row a predicate on the column columnId looks at
FieldOf(row, columnId) ==
    IF columnId = "title" THEN row.title
    ELSE IF columnId = "weight" THEN row.weight
    ELSE row.scores[FixedIndex[columnId] - Len(pinnedColumnIds)]

\* whether row satisfies the predicate f: an empty values list is satisfied
\* by every row, a text predicate by a row whose field contains one of the
\* values, an option predicate by every row
Satisfies(row, f) ==
    \/ f.values = <<>>
    \/ f.type = "option"
    \/ /\ f.type = "text"
       /\ \E i \in 1..Len(f.values) :
             ContainsIgnoringCase(FieldOf(row, f.columnId), f.values[i])

\* C9: for every list of filter predicates the filter result is exactly the
\* top-level nodes that satisfy every predicate of the list, in their order.
C9_ResultIsConjunction ==
    LET result == filteredData(data, filters)
        kept == {r \in 1..Len(data) :
                    \A k \in 1..Len(filters) : Satisfies(data[r], filters[k])}
    IN  /\ Len(result) = Cardinality(kept)
        /\ \A r \in kept : \E n \in 1..Len(result) : result[n] = data[r]
        /\ \A n \in 1..Len(result) : \E r \in kept : result[n] = data[r]
        /\ \A m, n \in 1..Len(result) :
              m < n => find(data, result[m].id) < find(data, result[n].id)

\* two predicates that each keep a different row: none passes both
C9_Witness ==
    /\ Len(filters) = 2
    /\ Len(filteredData(data, <<filters[1]>>)) = 1
    /\ Len(filteredData(data, <<filters[2]>>)) = 1
    /\ Len(filteredData(data, filters)) = 0

\* C10: a text predicate with a non-empty values list is satisfied by a row
\* iff the string form of the row's field for the predicate's column
\* contains, ignoring case, at least one of the values as a substring.
C10_TextMatchIsContainsAny ==
    \A k \in 1..Len(filters) :
        (filters[k].type = "text" /\ filters[k].values # <<>>)
            => \A r \in 1..Len(data) :
                  filterMatches(data[r], filters[k])
                     <=> \E i \in 1..Len(filters[k].values) :
                            ContainsIgnoringCase(
                                FieldOf(data[r], filters[k].columnId),
                                filters[k].values[i])

\* a text predicate whose second value matches one title in another case
C10_Witness ==
    /\ filters = <<[columnId |-> "title", type |-> "text",
                    values |-> <<"zzz", "SERVICE">>]>>
    /\ Len(filteredData(data, filters)) = 1
    /\ filteredData(data, filters)[1].title = "Service Approach and Methodology"


\* C11: a predicate whose values list is empty is satisfied by every row,
\* whatever its type and column, so the filter result with it is the filter
\* result without it.
C11_EmptyValuesIsVacuous ==
    \A k \in 1..Len(filters) :
        filters[k].values = <<>>
            => /\ \A r \in 1..Len(data) : filterMatches(data[r], filters[k])
               /\ filteredData(data, filters)
                     = filteredData(data, Without(filters, k - 1))

\* a text predicate with no values stands next to one that keeps one row
C11_Witness ==
    /\ Len(filters) = 2
    /\ filters[2].values = <<>>
    /\ filters[2].type = "text"
    /\ filters[1].values # <<>>
    /\ Len(filteredData(data, filters)) = 1

\* whether row satisfies every predicate of the list fs
SatisfiesAll(row, fs) == \A k \in 1..Len(fs) : Satisfies(row, fs[k])

\* C19: filtering is decided on the top-level rows only: a top-level row
\* that passes is in the result with all of its children, whether or not
\* they match; a top-level row that fails is not in the result, and neither
\* is any of its children, even when a child's field matches.
C19_FilterDecidedOnTopLevel ==
    LET result == filteredData(data, filters)
    IN  \A r \in 1..Len(data) :
            IF SatisfiesAll(data[r], filters)
            THEN \E n \in 1..Len(result) :
                    /\ result[n].id = data[r].id
                    /\ result[n].sub = data[r].sub
                    /\ getSubRows(result[n]) = getSubRows(data[r])
            ELSE \A n \in 1..Len(result) :
                    /\ result[n].id # data[r].id
                    /\ \A c \in 1..Len(data[r].sub), m \in 1..Len(result[n].sub) :
                          result[n].sub[m].id # data[r].sub[c].id

\* under one filter list a row passes whose child does not match, and a row
\* fails whose child matches
C19_Witness ==
    /\ filters # <<>>
    /\ \E r \in 1..Len(data) :
          /\ SatisfiesAll(data[r], filters)
          /\ \E c \in 1..Len(data[r].sub) :
                ~SatisfiesAll(getSubRows(data[r])[c], filters)
          /\ \E n \in 1..Len(filteredData(data, filters)) :
                filteredData(data, filters)[n] = data[r]
    /\ \E r \in 1..Len(data) :
          /\ ~SatisfiesAll(data[r], filters)
          /\ \E c \in 1..Len(data[r].sub) :
                SatisfiesAll(getSubRows(data[r])[c], filters)
          /\ \A n \in 1..Len(filteredData(data, filters)) :
                filteredData(data, filters)[n].id # data[r].id

\* C21: a predicate of type option is satisfied by every row, for every
\* column and every values list, empty or not: the filter result with it is
\* the filter result without it.
C21_OptionNeverNarrows ==
    \A k \in 1..Len(filters) :
        filters[k].type = "option"
            => /\ \A r \in 1..Len(data) : filterMatches(data[r], filters[k])
               /\ \A r \in 1..Len(data) : \A c \in 1..Len(data[r].sub) :
                     filterMatches(getSubRows(data[r])[c], filters[k])
               /\ filteredData(data, filters)
                     = filteredData(data, Without(filters, k - 1))

\* an option predicate on the title whose values, in a text predicate, keep
\* one row only: every row is in the result
C21_Witness ==
    /\ filters = <<[columnId |-> "title", type |-> "option",
                    values |-> <<"cost", "6">>]>>
    /\ Len(filteredData(data, <<[filters[1] EXCEPT !.type = "text"]>>)) = 1
    /\ filteredData(data, filters) = data

(***************************************************************************)
(* The footer aggregation as a function of the tree (specification         *)
(* SpecFooter).                                                            *)
(***************************************************************************)
FooterWeights == {"", "20%", "80%"}

FooterScores == {"-", "40%", "60%", "80%", "90%"}

\* trees of two sections, each scored for two vendors
FooterTrees ==
    {<<[id |-> "5.1", title |-> "Experience and Capabilities",
        weight |-> w[1], scores |-> s1, sub |-> <<>>],
       [id |-> "5.2", title |-> "Service Approach and Methodology",
        weight |-> w[2], scores |-> s2, sub |-> <<>>]>> :
        w \in [1..2 -> FooterWeights],
        s1 \in [1..2 -> FooterScores],
        s2 \in [1..2 -> FooterScores]}

\* the footer cell of one of the first two vendor columns over such a tree
InitFooter ==
    /\ TreeInit({0})
    /\ ColumnInit
    /\ FilterInit
    /\ ChatInit
    /\ \E d \in FooterTrees, v \in 1..2 :
          callArgs = [fn |-> "footer", data |-> d, colId |-> vendorColumnIds[v]]
    /\ callResult = NoResult

CallOverallScore ==
    /\ callArgs.fn = "footer"
    /\ ~callResult.returned
    /\ callResult' =
          [returned |-> TRUE,
           value |-> overallScore(callArgs.data, callArgs.colId),
           text |-> footerCell(callArgs.data, callArgs.colId)]
    /\ UNCHANGED <<treeVars, columnVars, filters, chatVars, callArgs>>

NextFooter == CallOverallScore

SpecFooter == InitFooter /\ [][NextFooter]_vars

\* the number a percentage string stands for, 0 when it has none
PercentValue(s) ==
    IF \E n \in 0..100 : s = String(n) \o "%"
    THEN CHOOSE n \in 0..100 : s = String(n) \o "%"
    ELSE 0

\* the section of the tree d with the id sectionId, as a set of positions
SectionsWithId(d, sectionId) == {r \in 1..Len(d) : d[r].id = sectionId}

\* the vendor's scores and the weights of the six fixed sections of d
ScoresAtFixedSections(d, colId) ==
    [k \in 1..Len(sectionIds) |->
        IF SectionsWithId(d, sectionIds[k]) = {} THEN 0
        ELSE PercentValue(
                d[CHOOSE r \in SectionsWithId(d, sectionIds[k]) : TRUE]
                    .scores[FixedIndex[colId] - Len(pinnedColumnIds)])]

WeightsAtFixedSections(d) ==
    [k \in 1..Len(sectionIds) |->
        IF SectionsWithId(d, sectionIds[k]) = {} THEN 0
        ELSE PercentValue(
                d[CHOOSE r \in SectionsWithId(d, sectionIds[k]) : TRUE].weight)]

\* the tree of the scenario
ScenarioTree(d) ==
    /\ d[1].weight = "20%" /\ d[1].scores = <<"80%", "60%">>
    /\ d[2].weight = "80%" /\ d[2].scores = <<"40%", "90%">>

\* C12: a vendor's overall score is calculateOverallScore applied to the
\* vendor's score at each fixed top-level section, the % stripped, and to the
\* sections' weights.  A section with weight 20% and scores 80%, 60% and one
\* with weight 80% and scores 40%, 90% give vendor 0 the overall score 48.0
\* and vendor 1 the overall score 84.0.
C12_OverallFromSectionScores ==
    callResult.returned
        => /\ callResult.value =
                 calculateOverallScore(
                     ScoresAtFixedSections(callArgs.data, callArgs.colId),
                     WeightsAtFixedSections(callArgs.data))
           /\ (ScenarioTree(callArgs.data) /\ callArgs.colId = "LangeTech")
                 => callResult.value = Num(480)
           /\ (ScenarioTree(callArgs.data) /\ callArgs.colId = "Best Pacific")
                 => callResult.value = Num(840)

\* the footer cell of vendor 1 over the tree of the scenario was computed
C12_Witness ==
    /\ callResult.returned
    /\ ScenarioTree(callArgs.data)
    /\ callArgs.colId = "Best Pacific"
    /\ callResult.text = "84%"

(***************************************************************************)
(* One weight cell over every text its input can hold (specification       *)
(* SpecCell).                                                              *)
(***************************************************************************)
\* the texts handleInputChange lets into the input: up to three digits
HoldableTexts ==
    {""}
    \cup {Digits[a] : a \in 1..10}
    \cup {Digits[a] \o Digits[b] : a, b \in 1..10}
    \cup {Digits[a] \o Digits[b] \o Digits[c] : a, b, c \in 1..10}

\* the tree the weight cells start on
CellTree == initialTableData(SampleDraws(0))

\* the weight cells looked at: those of the first and of the last section
\* and sub-criterion
CellNodes == {"5.1", "5.1.1", "5.6", "5.6.10"}

\* the weight input of one node has the focus and holds a typed text; the
\* node's stored weight is the one of the rubric or, from an earlier commit
\* of the same text, the one a blur stores for it
InitCell ==
    /\ \E id \in CellNodes, t \in HoldableTexts :
          \E w \in {WeightOf(CellTree, id), BlurValue(t)} :
              /\ data = handleWeightChange(CellTree, id, w)
              /\ focus = id
              /\ callArgs = [fn |-> "weightCell", id |-> id, text |-> t,
                             weight |-> w]
    /\ expanded = {r \in 1..Len(data) : data[r].id # focus /\ RowOf(data, focus) = r}
    /\ inputValue =
          [n \in NodeIdsOf(data) |->
              IF n = focus THEN callArgs.text
              ELSE InputOfWeight(WeightOf(data, n))]
    /\ clicks = 0
    /\ contextMenu = NoMenu
    /\ showBidDetails = FALSE
    /\ ColumnInit
    /\ FilterInit
    /\ ChatInit
    /\ callResult = NoResult

NextCell ==
    /\ callArgs.fn = "weightCell"
    /\ \/ handleInputBlur
       \/ DecrementClick(callArgs.id)
       \/ IncrementClick(callArgs.id)

SpecCell == InitCell /\ [][NextCell]_vars

\* the integer a text of up to three digits stands for
TextValue(t) ==
    CHOOSE v \in 0..999 : \E pad \in {"", "0", "00"} : t = pad \o String(v)

\* the typed text was committed by a blur and nothing else was done
BlurCommitted == focus = NoFocus /\ clicks = 0

\* C13: committing, by blur, weight text that parses to an integer v stores
\* n% on the node, n being v clamped to [0, 100] and rounded to the nearest
\* multiple of 5, for every v the input can hold (0..999).
C13_BlurStoresClampedRounded ==
    (BlurCommitted /\ callArgs.text # "")
        => LET v == TextValue(callArgs.text)
               clamped == IF v > 100 THEN 100 ELSE v
           IN  \E k \in 0..20 :
                  /\ WeightOf(data, callArgs.id) = String(5 * k) \o "%"
                  /\ 5 * k - clamped \in -2..2

\* the text 999 was committed on a section whose weight was 20%
C13_Witness ==
    /\ BlurCommitted
    /\ callArgs.text = "999"
    /\ callArgs.weight = "20%"
    /\ WeightOf(data, callArgs.id) = "100%"

\* C14: committing weight text that does not parse to an integer (the input
\* holds no digits) sets the node's weight to the empty string; the overall
\* scores stay defined, and a section so cleared enters them with weight 0.
C14_UnparsableTextClearsWeight ==
    (BlurCommitted /\ parseInt(callArgs.text).isNaN)
        => /\ WeightOf(data, callArgs.id) = ""
           /\ \A k \in 1..Len(sectionIds) :
                 sectionIds[k] = callArgs.id => sectionWeights(data)[k] = 0
           /\ \A v \in 1..Len(vendorColumnIds) :
                 ~overallScore(data, vendorColumnIds[v]).isNaN

\* the emptied input of a section whose weight was 20% was committed
C14_Witness ==
    /\ BlurCommitted
    /\ callArgs.text = ""
    /\ callArgs.id = "5.1"
    /\ callArgs.weight = "20%"
    /\ data[1].weight = ""
    /\ sectionWeights(data)[1] = 0

(***************************************************************************)
(* handleWeightChange as a function (specification SpecSetWeight).         *)
(***************************************************************************)
\* ids that no node of the tree has
UnknownIds == {"9.9", "5.1.11", ""}

StoredValues == {"", "0%", "35%", "100%", "8%", "abc"}

InitSetWeight ==
    /\ TreeInit(0..(NumSeeds - 1))
    /\ ColumnInit
    /\ FilterInit
    /\ ChatInit
    /\ \E rowId \in NodeIdsOf(data) \cup UnknownIds, value \in StoredValues :
          callArgs = [fn |-> "handleWeightChange", data |-> data,
                      rowId |-> rowId, value |-> value]
    /\ callResult = NoResult

\* the call handleWeightChange(rowId, value); the weight cells whose stored
\* weight changed take their input text from it
CallHandleWeightChange ==
    /\ callArgs.fn = "handleWeightChange"
    /\ ~callResult.returned
    /\ data' = handleWeightChange(data, callArgs.rowId, callArgs.value)
    /\ inputValue' =
          [n \in DOMAIN inputValue |->
              IF WeightOf(data', n) # WeightOf(data, n)
              THEN InputOfWeight(WeightOf(data', n))
              ELSE inputValue[n]]
    /\ callResult' = [returned |-> TRUE, value |-> data']
    /\ UNCHANGED <<expanded, focus, clicks, contextMenu, showBidDetails,
                   columnVars, filters, chatVars, callArgs>>

NextSetWeight == CallHandleWeightChange

SpecSetWeight == InitSetWeight /\ [][NextSetWeight]_vars

\* whether the tree d has a top-level node or a child with the id
HasNode(d, id) ==
    \E r \in 1..Len(d) :
        d[r].id = id \/ \E c \in 1..Len(d[r].sub) : d[r].sub[c].id = id

\* C15: a weight change with an id that matches no top-level node and no
\* child of one is a no-op: every node's id, title, weight, scores and
\* children are what they were before the call.
C15_UnknownIdIsNoOp ==
    (callResult.returned /\ ~HasNode(callArgs.data, callArgs.rowId))
        => /\ data = callArgs.data
           /\ Len(data) = Len(callArgs.data)
           /\ \A r \in 1..Len(data) :
                 /\ data[r].id = callArgs.data[r].id
                 /\ data[r].title = callArgs.data[r].title
                 /\ data[r].weight = callArgs.data[r].weight
                 /\ data[r].scores = callArgs.data[r].scores
                 /\ data[r].sub = callArgs.data[r].sub

\* the call with the id 5.1.11, which no node has, has returned
C15_Witness ==
    /\ callResult.returned
    /\ callArgs.rowId = "5.1.11"
    /\ callArgs.value = "35%"
    /\ data = callArgs.data

\* C18: only the weights of top-level sections enter the aggregation: a
\* weight change of a sub-criterion leaves every top-level weight and every
\* vendor's overall score and footer text as they were.
C18_SubWeightLeavesOverall ==
    (callResult.returned /\ callArgs.rowId \in SubIdsOf(callArgs.data))
        => /\ \A r \in 1..Len(data) : data[r].weight = callArgs.data[r].weight
           /\ \A v \in 1..Len(vendorColumnIds) :
                 /\ overallScore(data, vendorColumnIds[v])
                       = overallScore(callArgs.data, vendorColumnIds[v])
                 /\ footerCell(data, vendorColumnIds[v])
                       = footerCell(callArgs.data, vendorColumnIds[v])

\* the weight of the sub-criterion 5.1.1 was changed to 35%
C18_Witness ==
    /\ callResult.returned
    /\ callArgs.rowId = "5.1.1"
    /\ callArgs.value = "35%"
    /\ WeightOf(callArgs.data, "5.1.1") # "35%"
    /\ WeightOf(data, "5.1.1") = "35%"

\* the tree d with every weight blanked
WithoutWeights(d) ==
    [r \in 1..Len(d) |->
        [d[r] EXCEPT
            !.weight = "",
            !.sub = [c \in 1..Len(d[r].sub) |-> [d[r].sub[c] EXCEPT !.weight = ""]]]]

\* C26: a weight change with a known id changes the weight of the one node
\* with that id and nothing else: every other node's weight, every node's
\* id, title and scores, the number and order of sections and of children,
\* the column order and the expanded rows are as before, so that the tree
\* always has the nodes and vendors it was built with.
C26_OnlyOneWeightChanges ==
    /\ \E seed \in 0..(NumSeeds - 1) :
          WithoutWeights(data) = WithoutWeights(initialTableData(SampleDraws(seed)))
    /\ (callResult.returned /\ HasNode(callArgs.data, callArgs.rowId))
          => /\ WeightOf(data, callArgs.rowId) = callArgs.value
             /\ \A id \in NodeIdsOf(callArgs.data) \ {callArgs.rowId} :
                   WeightOf(data, id) = WeightOf(callArgs.data, id)
             /\ NodeIdsOf(data) = NodeIdsOf(callArgs.data)
             /\ Len(data) = Len(callArgs.data)
             /\ \A r \in 1..Len(data) :
                   /\ data[r].id = callArgs.data[r].id
                   /\ data[r].title = callArgs.data[r].title
                   /\ data[r].scores = callArgs.data[r].scores
                   /\ Len(data[r].scores) = Len(vendorColumnIds)
                   /\ Len(data[r].sub) = Len(callArgs.data[r].sub)
                   /\ \A c \in 1..Len(data[r].sub) :
                         /\ data[r].sub[c].id = callArgs.data[r].sub[c].id
                         /\ data[r].sub[c].text = callArgs.data[r].sub[c].text
                         /\ data[r].sub[c].scores = callArgs.data[r].sub[c].scores
             /\ columnOrder = allColumnIds
             /\ expanded = {}

\* the weight of the section 5.1 was changed to 35%
C26_Witness ==
    /\ callResult.returned
    /\ callArgs.rowId = "5.1"
    /\ callArgs.value = "35%"
    /\ WeightOf(callArgs.data, "5.1") = "20%"
    /\ WeightOf(data, "5.1") = "35%"
    /\ WeightOf(data, "5.1.1") = WeightOf(callArgs.data, "5.1.1")

(***************************************************************************)
(* Properties of the -5 / +5 buttons (specification SpecCell).              *)
(***************************************************************************)
\* C16: for every value the weight input can hold, the weight either button
\* stores is n% with 0 <= n <= 100 and is what a commit of that n would
\* store.
C16_ButtonsStoreClamped ==
    clicks > 0
        => LET w == WeightOf(data, callArgs.id)
           IN  /\ \E n \in 0..100 : w = String(n) \o "%"
               /\ w = BlurValue(InputOfWeight(w))

(***************************************************************************)
(* Unparsable inputs of the aggregation (specification SpecFooter).        *)
(***************************************************************************)
\* the tree d with a zero score for every unscored marker and a zero weight
\* for every unset weight
WithZeros(d) ==
    [r \in 1..Len(d) |->
        [d[r] EXCEPT
            !.weight = IF d[r].weight = "" THEN "0%" ELSE d[r].weight,
            !.scores = [v \in 1..Len(d[r].scores) |->
                           IF d[r].scores[v] = "-" THEN "0%" ELSE d[r].scores[v]]]]

\* C17: in aggregation a score string or weight string that is no number
\* after the % is stripped (the unscored marker "-", an empty weight), and a
\* section id the tree does not have, contribute 0: the overall score is a
\* number, the one the tree gives with zeros in their places.
C17_UnparsableContributesZero ==
    callResult.returned
        => LET d == callArgs.data
               idx == FixedIndex[callArgs.colId] - Len(pinnedColumnIds)
           IN  /\ \A k \in 1..Len(sectionIds) :
                     IF SectionsWithId(d, sectionIds[k]) = {}
                     THEN /\ sectionScores(d, idx - 1)[k] = 0
                          /\ sectionWeights(d)[k] = 0
                     ELSE LET row == d[CHOOSE r \in SectionsWithId(d, sectionIds[k]) : TRUE]
                          IN  /\ row.scores[idx] = "-"
                                    => sectionScores(d, idx - 1)[k] = 0
                              /\ row.weight = "" => sectionWeights(d)[k] = 0
               /\ ~callResult.value.isNaN
               /\ callResult.text = FormatTenths(callResult.value) \o "%"
               /\ callResult.value = overallScore(WithZeros(d), callArgs.colId)

\* a tree with an unscored section and a section without weight was aggregated
C17_Witness ==
    /\ callResult.returned
    /\ callArgs.colId = "LangeTech"
    /\ callArgs.data[1].scores[1] = "-"
    /\ callArgs.data[1].weight = "20%"
    /\ callArgs.data[2].scores[1] = "90%"
    /\ callArgs.data[2].weight = ""
    /\ callResult.text = "0%"

(***************************************************************************)
(* The option list of a vendor column (specification SpecOptions).         *)
(***************************************************************************)
\* Array.prototype.filter(Boolean) over strings: the non-empty ones
filterBoolean(xs) ==
    LET nonEmpty(x) == x # ""
    IN  SelectSeq(xs, nonEmpty)

\* Array.prototype.flatMap over a sequence of sequences
RECURSIVE flat(_)
flat(xss) == IF xss = <<>> THEN <<>> ELSE Head(xss) \o flat(Tail(xss))

\* Array.from(new Set(xs)): the values of xs in the order of their first
\* occurrence
RECURSIVE ArrayFromSet(_)
ArrayFromSet(xs) ==
    IF xs = <<>> THEN <<>>
    ELSE LET front == ArrayFromSet(SubSeq(xs, 1, Len(xs) - 1))
             last == xs[Len(xs)]
         IN  IF \E i \in 1..Len(front) : front[i] = last
             THEN front
             ELSE Append(front, last)

\* getVendorOptions(idx) over the tree d, idx zero-based
getVendorOptions(d, idx) ==
    LET perRow ==
            [r \in 1..Len(d) |->
                IF d[r].scores[idx + 1] # "" THEN <<d[r].scores[idx + 1]>>
                ELSE filterBoolean([c \in 1..Len(d[r].sub) |->
                                       d[r].sub[c].scores[idx + 1]])]
        values == ArrayFromSet(flat(perRow))
    IN  [i \in 1..Len(values) |-> [label |-> values[i], value |-> values[i]]]

OptionScores == {"", "70%", "80%"}

\* no child, or one child with its two scores
OptionChildren(id) ==
    {<<>>} \cup {<<[id |-> id, text |-> id, weight |-> "", scores |-> c]>> :
                    c \in [1..2 -> OptionScores]}

OptionTrees ==
    {<<[id |-> "5.1", title |-> "Experience and Capabilities",
        weight |-> "20%", scores |-> s1, sub |-> c1],
       [id |-> "5.2", title |-> "Service Approach and Methodology",
        weight |-> "20%", scores |-> s2, sub |-> c2]>> :
        s1 \in [1..2 -> OptionScores], c1 \in OptionChildren("5.1.1"),
        s2 \in [1..2 -> OptionScores], c2 \in OptionChildren("5.2.1")}

\* getVendorOptions over a small tree, or over the table the page starts with
InitOptions ==
    /\ TreeInit({0})
    /\ ColumnInit
    /\ FilterInit
    /\ ChatInit
    /\ \/ \E d \in OptionTrees, idx \in 0..1 :
             callArgs = [fn |-> "getVendorOptions", data |-> d, idx |-> idx]
       \/ \E seed \in 0..(NumSeeds - 1), idx \in 0..(Len(vendorColumnIds) - 1) :
             callArgs = [fn |-> "getVendorOptions",
                         data |-> initialTableData(SampleDraws(seed)), idx |-> idx]
    /\ callResult = NoResult

CallGetVendorOptions ==
    /\ callArgs.fn = "getVendorOptions"
    /\ ~callResult.returned
    /\ callResult' =
          [returned |-> TRUE,
           value |-> getVendorOptions(callArgs.data, callArgs.idx)]
    /\ UNCHANGED <<treeVars, columnVars, filters, chatVars, callArgs>>

NextOptions == CallGetVendorOptions

SpecOptions == InitOptions /\ [][NextOptions]_vars

\* the vendor's non-empty scores over the top-level nodes of d and over the
\* children of every node that has children
ScoresAnywhere(d, idx) ==
    ({d[r].scores[idx + 1] : r \in 1..Len(d)}
        \cup UNION {{d[r].sub[c].scores[idx + 1] : c \in 1..Len(d[r].sub)} :
                        r \in 1..Len(d)})
        \ {""}

\* C20: the option list of a vendor column is the duplicate-free set of the
\* vendor's non-empty scores over every top-level node that has one together
\* with the vendor's scores over every child of every node with children; in
\* particular a score that occurs only at a sub-criterion is in the list.
C20_OptionsCoverSubCriteria ==
    callResult.returned
        => LET options == callResult.value
           IN  /\ \A i, j \in 1..Len(options) :
                     options[i].value = options[j].value => i = j
               /\ {options[i].value : i \in 1..Len(options)}
                     = ScoresAnywhere(callArgs.data, callArgs.idx)

(***************************************************************************)
(* The chat panel: ChatTabContent over useChat of @ai-sdk/react            *)
(* (specification SpecChat).  The component decides which controls there   *)
(* are: the input, Send, Stop and Retry.  The hook keeps messages, input,  *)
(* status and error and runs the requests; it is a library whose code is   *)
(* not part of the repository, and what it does (a request starts, a chunk *)
(* arrives, the answer ends, the request fails, stop, reload) follows the  *)
(* assistant service of the specification.                                 *)
(***************************************************************************)
\* how many messages the conversation may hold
MaxMessages == 3

\* how many chunks an answer may have
MaxChunks == 2

\* what the user types: nothing, a space, a tab, a vertical tab (U+000B), a
\* no-break space (U+00A0), a message
TypedInputs == {"", " ", "\t", "", " ", "hi"}

\* String.prototype.trim: the string without the white space at its ends
trim(s) ==
    LET b == SkipSpaces(s, 1)
        e == SkipSpacesBack(s, Len(s))
    IN  IF b > e THEN "" ELSE SubSeq(s, b, e)

\* the chat input is disabled
inputDisabled == status = "streaming"

\* the Send button is disabled
sendDisabled == status = "streaming" \/ trim(input) = ""

\* a Stop button that is rendered for every status but 'ready'
stopVisibleUnlessReady == status # "ready"

\* the Stop button is rendered
stopVisible == status = "streaming" \/ status = "submitted"

\* an error line that is rendered only once the chat is ready again
retryVisibleWhenReady == error # undefined /\ status = "ready"

\* the error line with the Retry button is rendered
retryVisible == error # undefined

\* what a step of the chat was: the call and the state it was made in
ChatCall(fn) ==
    [fn |-> fn, messages |-> messages, input |-> input, status |-> status,
     error |-> error, requests |-> requests]

\* the hook starts a request for the messages msgs
triggerRequest(msgs) ==
    /\ messages' = msgs
    /\ status' = "submitted"
    /\ error' = undefined
    /\ requests' = requests + 1

\* the user types in the chat input
chatInputChange(val) ==
    /\ ~inputDisabled
    /\ val # input
    /\ input' = val
    /\ callArgs' = ChatCall("handleInputChange")
    /\ UNCHANGED <<treeVars, columnVars, filters, callResult, messages, status,
                   error, requests>>

\* the form is submitted, by the Send button or the Enter key: the hook
\* sends the input as the user's message, unless the input is empty
handleSubmit ==
    /\ ~inputDisabled
    /\ ~sendDisabled
    /\ input # ""
    /\ Len(messages) < MaxMessages
    /\ triggerRequest(Append(messages, [role |-> "user", content |-> input]))
    /\ input' = ""
    /\ callArgs' = ChatCall("handleSubmit")
    /\ UNCHANGED <<treeVars, columnVars, filters, callResult>>

\* the messages with a chunk of the answer added to the assistant message the
\* list ends with, or in a new assistant message
withChunk(msgs) ==
    IF msgs # <<>> /\ msgs[Len(msgs)].role = "assistant"
    THEN [msgs EXCEPT ![Len(msgs)].content = @ \o "ok"]
    ELSE Append(msgs, [role |-> "assistant", content |-> "ok"])

\* a chunk of the answer arrives
receiveChunk ==
    /\ requests > 0
    /\ Len(withChunk(messages)) <= MaxMessages
    /\ Len(withChunk(messages)[Len(withChunk(messages))].content)
          <= MaxChunks * Len("ok")
    /\ messages' = withChunk(messages)
    /\ status' = "streaming"
    /\ callArgs' = ChatCall("chunk")
    /\ UNCHANGED <<treeVars, columnVars, filters, callResult, input, error,
                   requests>>

\* the answer ends
finish ==
    /\ requests > 0
    /\ status' = "ready"
    /\ requests' = requests - 1
    /\ callArgs' = ChatCall("finish")
    /\ UNCHANGED <<treeVars, columnVars, filters, callResult, messages, input,
                   error>>

\* the request fails
fail ==
    /\ requests > 0
    /\ status' = "error"
    /\ error' = "failed"
    /\ requests' = requests - 1
    /\ callArgs' = ChatCall("fail")
    /\ UNCHANGED <<treeVars, columnVars, filters, callResult, messages, input>>

\* the Stop button: stop().  The request in flight is aborted and the chat
\* is ready; with no request in flight nothing happens.
stop ==
    /\ stopVisible
    /\ IF requests > 0
       THEN /\ status' = "ready"
            /\ requests' = requests - 1
       ELSE UNCHANGED <<status, requests>>
    /\ callArgs' = ChatCall("stop")
    /\ UNCHANGED <<treeVars, columnVars, filters, callResult, messages, input,
                   error>>

\* the Retry button: reload().  The hook sends the conversation again, up to
\* the last message of the user: an answer at the end, whole or in part, is
\* dropped.
reload ==
    /\ retryVisible
    /\ LET withoutAnswer ==
               IF messages # <<>> /\ messages[Len(messages)].role = "assistant"
               THEN SubSeq(messages, 1, Len(messages) - 1)
               ELSE messages
       IN  triggerRequest(withoutAnswer)
    /\ callArgs' = ChatCall("reload")
    /\ UNCHANGED <<treeVars, columnVars, filters, callResult, input>>

InitChat ==
    /\ TreeInit({0})
    /\ ColumnInit
    /\ FilterInit
    /\ ChatInit
    /\ CallInit

NextChat ==
    \/ \E val \in TypedInputs : chatInputChange(val)
    \/ handleSubmit
    \/ receiveChunk
    \/ finish
    \/ fail
    \/ stop
    \/ reload

SpecChat == InitChat /\ [][NextChat]_vars

\* whether the sequence a is the start of the sequence b
IsPrefix(a, b) == Len(a) <= Len(b) /\ a = SubSeq(b, 1, Len(a))

\* C23: stop is safe at any time.  With no request in flight (idle, after
\* an answer has ended, after a failure) there is no Stop button, so the
\* status and the messages stay as they are; once a request has started or a
\* chunk of its answer has arrived the Stop button is there; and a click on
\* it, which finds a request in flight, ends the stream: the request is
\* gone, the chat is ready, the Stop button is gone, and the messages, the
\* input and the error are as they were.
C23_StopIsSafeAnyTime ==
    /\ requests = 0 => ~stopVisible
    /\ callArgs.fn \in {"handleSubmit", "reload", "chunk"}
          => stopVisible /\ requests > 0
    /\ callArgs.fn = "stop"
          => /\ callArgs.status \in {"submitted", "streaming"}
             /\ callArgs.requests > 0
             /\ requests = callArgs.requests - 1
             /\ status = "ready"
             /\ ~stopVisible
             /\ messages = callArgs.messages
             /\ input = callArgs.input
             /\ error = callArgs.error

\* Stop was clicked in the middle of an answer: the part that had arrived
\* stays, and no request is left
C23_Witness ==
    /\ callArgs.fn = "stop"
    /\ callArgs.status = "streaming"
    /\ callArgs.requests = 1
    /\ Len(messages) = 2
    /\ messages[2].role = "assistant"
    /\ status = "ready"
    /\ requests = 0

\* C24: when the exchange has failed the chat shows the error with a Retry
\* action, and Retry sends the last request again as a new exchange, not as
\* a continuation of the failed one: the conversation ends with the user's
\* message, the error is gone and the chat awaits the first token.
C24_FailureOffersRetry ==
    /\ callArgs.fn = "fail" => status = "error" /\ retryVisible
    /\ status = "error" => retryVisible
    /\ callArgs.fn = "reload"
          => /\ callArgs.error # undefined
             /\ status = "submitted"
             /\ stopVisible
             /\ ~retryVisible
             /\ requests = callArgs.requests + 1
             /\ messages # <<>>
             /\ messages[Len(messages)].role = "user"
             /\ IsPrefix(messages, callArgs.messages)
             /\ Len(callArgs.messages) - Len(messages) <= 1

\* Retry was clicked after a failure in the middle of an answer
C24_Witness ==
    /\ callArgs.fn = "reload"
    /\ callArgs.status = "error"
    /\ callArgs.requests = 0
    /\ callArgs.messages[Len(callArgs.messages)].role = "assistant"
    /\ status = "submitted"
    /\ Len(messages) = 1

\* C30: while a request is in flight (status submitted or streaming) the
\* user cannot submit another message: a submit is made with no request in
\* flight, and at most one request is in flight at any time.
C30_OneRequestInFlight ==
    /\ requests <= 1
    /\ stopVisible => sendDisabled \/ inputDisabled \/ input = ""
    /\ callArgs.fn = "handleSubmit" => callArgs.requests = 0

(***************************************************************************)
(* computeWeightedRFPScoring (specification SpecScoring).  The attribute   *)
(* values are integers from 0 to 100.  A weight, a product and a sum are   *)
(* IEEE 754 doubles, each held as the whole number of 2^-55 it is worth,   *)
(* written in four limbs of 24 bits with the lowest first: 82.75 is        *)
(* 10592 * 2^48 * 2^-55, the limbs <<0, 0, 10592, 0>>.                     *)
(***************************************************************************)
\* how many vendors a call may be given
MaxVendors == 2

attributes ==
    <<"experienceAndCapabilities", "serviceApproachAndMethodology",
      "complianceAndRegulatoryAlignment", "sustainabilityAndDEICommitments",
      "costCompetitivenessAndValue", "innovationAndTechnologicalAdvancement">>

\* the double nearest to the number with the limbs x (a number below 2^17):
\* the limbs are brought under 2^24, and what lies under the 53 leading bits
\* is rounded off, a tie going to the even neighbour
roundToDouble(x) ==
    LET B == 2 ^ 24
        carry(y) ==
            LET k2 == y[2] + y[1] \div B
                k3 == y[3] + k2 \div B
            IN  <<y[1] % B, k2 % B, k3 % B, y[4] + k3 \div B>>
        n == carry(x)
        bits == CHOOSE k \in 0..24 :
                    2 ^ k > n[3] /\ (k = 0 \/ 2 ^ (k - 1) <= n[3])
        s == Max(bits - 5, 0)
        p == 2 ^ s
        r == n[1] % p
        odd == (n[1] \div p) % 2 = 1
        up == s > 0 /\ (2 * r > p \/ (2 * r = p /\ odd))
    IN  carry(<<n[1] - r + (IF up THEN p ELSE 0), n[2], n[3], n[4]>>)

\* a * w in doubles, for an integer a from 0 to 100
times(a, w) == roundToDouble([i \in 1..4 |-> a * w[i]])

\* x + y in doubles
plus(x, y) == roundToDouble([i \in 1..4 |-> x[i] + y[i]])

\* weights that give compliance the 0.20 of the service approach
weightsSwapped ==
    [a \in {attributes[k] : k \in 1..Len(attributes)} |->
        IF a \in {attributes[1], attributes[3]}
        THEN <<10066330, 10066329, 25, 0>>
        ELSE <<3355443, 3355443, 19, 0>>]

\* the weights of computeWeightedRFPScoring.  The literal 0.20 is the double
\* 7205759403792794 * 2^-55 (five times it is 2^55 + 2) and 0.15 is
\* 5404319552844595 * 2^-55 (twenty times it is 3 * 2^55 - 4).
weights ==
    [a \in {attributes[k] : k \in 1..Len(attributes)} |->
        IF a \in {attributes[1], attributes[2]}
        THEN <<10066330, 10066329, 25, 0>>
        ELSE <<3355443, 3355443, 19, 0>>]

\* vendors.map(vendor => ({ ...vendor, overallScore })): the new overallScore
\* takes the place of one the vendor came with
computeWeightedRFPScoring(vendors) ==
    [n \in 1..Len(vendors) |->
        LET vendor == vendors[n]
            weighted ==
                plus(plus(plus(plus(plus(
                    times(vendor.experienceAndCapabilities,
                          weights.experienceAndCapabilities),
                    times(vendor.serviceApproachAndMethodology,
                          weights.serviceApproachAndMethodology)),
                    times(vendor.complianceAndRegulatoryAlignment,
                          weights.complianceAndRegulatoryAlignment)),
                    times(vendor.sustainabilityAndDEICommitments,
                          weights.sustainabilityAndDEICommitments)),
                    times(vendor.costCompetitivenessAndValue,
                          weights.costCompetitivenessAndValue)),
                    times(vendor.innovationAndTechnologicalAdvancement,
                          weights.innovationAndTechnologicalAdvancement))
        IN  [overallScore |-> weighted] @@ vendor]

\* a vendor with the six attribute values v[1..6]
Vendor(v) == [k \in {attributes[n] : n \in 1..Len(attributes)} |->
                 v[CHOOSE n \in 1..Len(attributes) : attributes[n] = k]]

exampleVendors ==
    <<Vendor(<<80, 90, 85, 70, 75, 95>>), Vendor(<<60, 70, 65, 80, 85, 75>>)>>

\* a vendor that comes with an overallScore of 50 from an earlier scoring
StaleVendor == [overallScore |-> <<0, 0, 6400, 0>>] @@ exampleVendors[2]

\* the example vendors, for each attribute a vendor that scores in it alone,
\* vendors whose score is not a decimal the doubles hold exactly, and a
\* vendor that was scored before
VendorSamples ==
    {exampleVendors[1], exampleVendors[2], StaleVendor,
     Vendor(<<3, 0, 0, 0, 0, 0>>), Vendor(<<0, 0, 3, 0, 0, 0>>),
     Vendor(<<7, 13, 29, 31, 57, 99>>)}
        \cup {Vendor([n \in 1..Len(attributes) |-> IF n = k THEN 100 ELSE 0]) :
                 k \in 1..Len(attributes)}

VendorLists ==
    UNION {[1..len -> VendorSamples] : len \in 0..MaxVendors}

InitScoring ==
    /\ TreeInit({0})
    /\ ColumnInit
    /\ FilterInit
    /\ ChatInit
    /\ \E vendors \in VendorLists \cup {exampleVendors} :
          callArgs = [fn |-> "computeWeightedRFPScoring", vendors |-> vendors]
    /\ callResult = NoResult

CallComputeWeightedRFPScoring ==
    /\ callArgs.fn = "computeWeightedRFPScoring"
    /\ ~callResult.returned
    /\ callResult' = [returned |-> TRUE,
                      value |-> computeWeightedRFPScoring(callArgs.vendors)]
    /\ UNCHANGED <<treeVars, columnVars, filters, chatVars, callArgs>>

NextScoring == CallComputeWeightedRFPScoring

SpecScoring == InitScoring /\ [][NextScoring]_vars

\* the expectedScore of the module's assertion:
\* 80 * 0.2 + 90 * 0.2 + 85 * 0.15 + 70 * 0.15 + 75 * 0.15 + 95 * 0.15
expectedScore ==
    LET d020 == <<10066330, 10066329, 25, 0>>
        d015 == <<3355443, 3355443, 19, 0>>
    IN  plus(plus(plus(plus(plus(times(80, d020), times(90, d020)),
                                 times(85, d015)), times(70, d015)),
                  times(75, d015)), times(95, d015))

\* whether the double x, below 2^17, is within 0.0001 of h hundredths.
\* x * 2^17 rounded down is t; x is less than 2^-17 above t * 2^-17, so a
\* distance of at most 1210 between 100 * t and h * 2^17 puts x within
\* 0.0001 of h / 100.
WithinTolerance(x, h) ==
    LET t == x[3] * (2 ^ 10) + x[2] \div (2 ^ 14)
    IN  x[4] = 0 /\ Abs(100 * t - h * (2 ^ 17)) <= 1210

\* C25: computeWeightedRFPScoring returns one record per vendor, in the
\* order given, with the six attribute values as they were and overallScore
\* 0.20 * experience + 0.20 * serviceApproach + 0.15 * each of compliance,
\* sustainability, cost and innovation, whatever overallScore the vendor came
\* with: the double the code computes is within 0.0001 of that sum, and for
\* the first example vendor it is 82.75, the expectedScore of the module's
\* assertion.
C25_WeightedScoringPerVendor ==
    callResult.returned
        => LET vendors == callArgs.vendors
               scored == callResult.value
           IN  /\ Len(scored) = Len(vendors)
               /\ \A n \in 1..Len(vendors) :
                     /\ \A k \in 1..Len(attributes) :
                           scored[n][attributes[k]] = vendors[n][attributes[k]]
                     /\ DOMAIN scored[n]
                           = {attributes[k] : k \in 1..Len(attributes)}
                                \cup {"overallScore"}
                     /\ WithinTolerance(scored[n].overallScore,
                           15 * SumSeq([k \in 1..Len(attributes) |->
                                           vendors[n][attributes[k]]])
                           + 5 * (vendors[n][attributes[1]]
                                  + vendors[n][attributes[2]]))
               /\ vendors = exampleVendors
                     => /\ scored[1].overallScore = expectedScore
                        /\ scored[1].overallScore = <<0, 0, 10592, 0>>

\* the first example vendor was scored 82.75, and after it a vendor with the
\* second one's values that came with a score of 50 was scored 71.75
C25_Witness ==
    /\ callResult.returned
    /\ Len(callResult.value) = 2
    /\ callResult.value[1].overallScore = <<0, 0, 10592, 0>>
    /\ callResult.value[2].overallScore = <<0, 0, 9184, 0>>
    /\ callArgs.vendors = <<exampleVendors[1], StaleVendor>>
(***************************************************************************)
(* The footer under filters (specification SpecFilter).                    *)
(***************************************************************************)
\* C28: each vendor's overall score is computed from the whole tree, not
\* from the rows the filters leave: whatever predicates have been added or
\* removed, every footer cell is what the tree gives without any filter.
C28_FiltersLeaveOverall ==
    \A p \in 1..Len(renderedOrder) :
        footerCell(footerData, renderedOrder[p]) =
            IF p = 1 THEN "Overall Score"
            ELSE IF p = 2 THEN ""
            ELSE FormatTenths(calculateOverallScore(
                     ScoresAtFixedSections(data, renderedOrder[p]),
                     WeightsAtFixedSections(data))) \o "%"

\* the filters leave no row, and the footer still shows the first vendor's
\* overall score
C28_Witness ==
    /\ filters # <<>>
    /\ filteredData(data, filters) = <<>>
    /\ footerCell(footerData, renderedOrder[Len(pinnedColumnIds) + 1]) # "0%"
    /\ footerCell(footerData, renderedOrder[Len(pinnedColumnIds) + 1])
          = FormatTenths(overallScore(data, "LangeTech")) \o "%"

=============================================================================
